---- MODULE Spec2Model ----
(***************************************************************************)
(* NewsAgent: the Redis work queue (src/main.py, src/worker.py), the       *)
(* pipeline graph (src/graph), the governance gate                         *)
(* (src/utils/governance.py) and the scheduler (src/scheduler/main.py).    *)
(*                                                                         *)
(* The specifications of this module:                                      *)
(*   SpecQueue  API handlers and worker loops over the two Redis lists     *)
(*              and the job:<id> status hashes;                            *)
(*   SpecPipe   one worker executing the LangGraph workflow node by node;  *)
(*   SpecGate   the fleet of fetchers around the per-domain rate limiter;  *)
(*   SpecSched  the scheduler's cycles, run-now requests and source checks *)
(*              over the sources and processed_articles collections;       *)
(*   SpecConfig load_agent_configuration over the prompts collection;      *)
(*   SpecArticles  the article handlers of the scheduler's API;            *)
(*   SpecPipeFair  SpecPipe with an invoke call that keeps executing;      *)
(*   SpecBusy   the queue under producers that never stop submitting;      *)
(*   SpecDlq    the DLQ handlers and the workers over dead-lettered jobs;  *)
(*   SpecRobots can_fetch over the robots.txt cache keys.                  *)
(***************************************************************************)
EXTENDS Integers, Sequences, FiniteSets, Bags, TLC

(***************************************************************************)
(* Bounds of the model                                                     *)
(***************************************************************************)
MaxJobs == 2
MaxFails == 1

Workers == {"w1", "w2"}
ApiSlots == {"a1"}

JobIds == 1..MaxJobs
NoJob == 0

(***************************************************************************)
(* Queue state                                                             *)
(***************************************************************************)
VARIABLES
  main_q,     \* Redis list settings.REDIS_QUEUE_NAME, index 1 = head (left)
  dlq,        \* Redis list settings.REDIS_DLQ_NAME, index 1 = head (left)
  job,        \* Redis hashes job:<id>: [status, error]
  api,        \* API request handlers in flight
  wk,         \* worker processes: position in run_worker and local variables
  nextJob,    \* number of job ids issued by uuid4 so far
  nextTag,    \* history: number of placements on main so far
  fails,      \* history: number of pipeline runs that ended in error or crash
  hist,       \* history: per job, the values written to job:<id>.status since the
              \* job's latest placement on main
  placements, \* history: per job, number of placements on main
  started,    \* history: per placement tag, number of pipeline runs started for it
  requeueOk,  \* history: per job, number of requeue-by-id calls that returned success
  deletedOk,  \* history: per job, number of DELETE /queue/dlq calls that returned success
  replied     \* history: per job, the status code POST /submit-job answered with

(***************************************************************************)
(* Pipeline state: one worker process executing app_graph.invoke           *)
(***************************************************************************)
VARIABLES
  node,          \* the graph node to execute next, "END", or "RAISED" (invoke raised)
  state,         \* MainWorkflowState
  robots_cache,  \* Redis keys robots_cache:<domain>: "none", "1" or "0"
  robots_live,   \* history, followed in SpecRobots: per domain, the can_fetch call
                 \* that wrote the key now in robots_cache: its url and how its
                 \* robots.txt read ended, "read" or "unreadable"
  canFetchTrue,  \* history: URLs for which can_fetch returned true in this run
  loaded,        \* history: URLs loaded in a browser page in this run
  errSnap,       \* history: the state fields when error_message was first set in the run
  selectRuns,    \* history: executions of select_best_summary in the run
  worker_end,    \* what run_worker did with the result of the run: the status it
                 \* wrote, the error it recorded, DLQ pushes, notifier calls
  webhook        \* history: the requests.post calls of notify_webhook in the run
                 \* and what the receiver answered to the latest one

(***************************************************************************)
(* Gate state: the processes that load pages and the limiter's Redis keys  *)
(***************************************************************************)
VARIABLES
  gate,        \* fetching processes: position, the URL in hand, whether
               \* wait_for_slot returned for it, seconds left to sleep
  rate_limit,  \* Redis keys rate_limit:<domain>: seconds to live, 0 = no key
  since_load,  \* history: per domain, seconds since the latest page load
  since_slot   \* history: per domain, seconds since wait_for_slot last returned

(***************************************************************************)
(* Scheduler state: the source and article collections and the             *)
(* check_single_source tasks on the scheduler's event loop                 *)
(***************************************************************************)
VARIABLES
  now,          \* minutes on the scheduler's clock
  sources_col,  \* Mongo collection sources: [is_active, last_run_at,
                \* fetch_interval_minutes] per source
  articles_col, \* Mongo collection processed_articles: per URL, the status
                \* fields of the rows that carry it, in insertion order
  checks,       \* the bag of check_single_source tasks in flight: position,
                \* local variables, history
  submit_job,   \* history: per URL, the POST /submit-job calls that succeeded
  mails,        \* history: per source, the send_error_email calls with job id
                \* scheduler-<source_id>
  sem,          \* CONCURRENCY_LIMIT._value: the slots of the semaphore that are free
  last_exc,     \* history: the exception raised in the latest step of a check
  dispatched    \* history: per source, the time of the latest cycle that started a
                \* check of it

(***************************************************************************)
(* Configuration state: the prompts collection and what load_agent_configuration made   *)
(* of it                                                                   *)
(***************************************************************************)
VARIABLES
  prompts_col,  \* Mongo collection prompts: the names that have an ACTIVE document
  config        \* what load_agent_configuration returned for prompts_col, NoConfig before it ran

cvars == <<prompts_col, config>>

(***************************************************************************)
(* Article store: the three article collections as the scheduler's HTTP    *)
(* handlers see them, document by document                                 *)
(***************************************************************************)
VARIABLES
  processed_articles,  \* Mongo collection processed_articles (articles_col):
                       \* documents [_id, url, status]
  archived_articles,   \* Mongo collection archived_articles (archive_col)
  deleted_articles,    \* Mongo collection deleted_articles (deleted_col)
  next_id,             \* number of _id values issued by uuid4 so far
  moved,               \* history: the documents for which archive or soft delete
                       \* returned success, as the handler found them
  job_posts            \* history: per URL, the POST /submit-job requests the
                       \* scheduler made for it

avars == <<processed_articles, archived_articles, deleted_articles, next_id, moved, job_posts>>

(***************************************************************************)
(* Link scoring in one worker process: the batch of check_embedded_links   *)
(* and its check_single_link tasks                                         *)
(***************************************************************************)
VARIABLES
  links_batch,        \* where check_embedded_links is: "idle", "gather" (awaiting
                \* asyncio.gather), "closing" (leaving get_async_browser_context)
                \* or "returned"
  link_tasks,   \* the check_single_link tasks by position: wait (before the
                \* semaphore), held (inside it, context is None), open (inside
                \* it with a context)
  browser_sem,  \* the permits BROWSER_SEMAPHORE has left
  contexts      \* the browser contexts that are open

lvars == <<links_batch, link_tasks, browser_sem, contexts>>

svars == <<now, sources_col, articles_col, checks, submit_job, mails, sem, last_exc,
           dispatched>>

gvars == <<gate, rate_limit, since_load, since_slot>>

pvars == <<node, state, robots_cache, robots_live, canFetchTrue, loaded, errSnap, selectRuns, worker_end,
           webhook>>

qvars == <<main_q, dlq, job, api, wk, nextJob, nextTag, fails, hist, placements, started,
           requeueOk, deletedOk, replied>>

vars == <<qvars, pvars, gvars, svars, cvars, avars, lvars>>

\* what the queue steps leave alone
nonQueue == <<pvars, gvars, svars, cvars, avars, lvars>>

\* what the pipeline steps leave alone
nonPipe == <<qvars, gvars, svars, cvars, avars, lvars>>

\* what the gate steps leave alone
nonGate == <<qvars, pvars, svars, cvars, avars, lvars>>

\* what the scheduler steps leave alone
nonSched == <<qvars, pvars, gvars, cvars, avars, lvars>>

\* what the configuration steps leave alone
nonConfig == <<qvars, pvars, gvars, svars, avars, lvars>>

\* what the link scoring steps leave alone
nonLinks == <<qvars, pvars, gvars, svars, cvars, avars>>

\* what the article handlers leave alone
nonStore == <<qvars, pvars, gvars, svars, cvars, lvars>>

NoEnv == [job_id |-> NoJob, error |-> "unset", traceback |-> FALSE, tag |-> 0]

\* at_start and moved are history: the job ids on the DLQ when requeue-all read its
\* length, and the job ids of the envelopes it moved since, in order
IdleApi == [op |-> "none", pc |-> "idle", job_id |-> NoJob, target |-> NoEnv, count |-> 0,
            at_start |-> {}, moved |-> <<>>]

IdleWorker == [pc |-> "blpop", job_data |-> NoEnv, outcome |-> "none",
               wrote |-> <<>>, pushes |-> <<>>, mails |-> <<>>]

AbsentJob == [status |-> "absent", error |-> "unset"]

(***************************************************************************)
(* Redis list and hash commands                                            *)
(***************************************************************************)
\* LPUSH key value
lpush(q, x) == <<x>> \o q

\* the element BLPOP returns: the head of the list
blpop_item(q) == Head(q)

\* a pop that reads the head and leaves it on the list
blpop_rest_peek(q) == q

\* the list BLPOP leaves behind
blpop_rest(q) == Tail(q)

\* the on-wire JSON of an envelope; the placement tag is not part of it
raw(e) == [job_id |-> e.job_id, error |-> e.error, traceback |-> e.traceback]

\* an LREM that finds no element equal to value
lrem1_none(q, x) == q

RECURSIVE lrem1(_, _)
\* LREM key 1 value: remove the first element equal to value
lrem1(q, x) ==
  IF q = <<>> THEN <<>>
  ELSE IF raw(Head(q)) = raw(x) THEN Tail(q)
  ELSE <<Head(q)>> \o lrem1(Tail(q), x)

RECURSIVE find_job(_, _)
\* the search loop of requeue_dlq_item / delete_dlq_item over LRANGE 0 -1
find_job(items, job_id) ==
  IF items = <<>> THEN NoEnv
  ELSE IF Head(items).job_id = job_id THEN Head(items)
  ELSE find_job(Tail(items), job_id)

\* HSET job:<id> mapping: fields not in the mapping keep their value
hset_status(h, s) == [h EXCEPT !.status = s]
hset_status_error(h, s, e) == [h EXCEPT !.status = s, !.error = e]

\* update_job_status(r, job_id, status, error=...): error is written only if truthy
update_job_status(h, s, e) ==
  IF e \in {"unset", ""} THEN hset_status(h, s) ELSE hset_status_error(h, s, e)

Placed(e, t) == [e EXCEPT !.tag = t]

(***************************************************************************)
(* Initial state of the queue                                              *)
(***************************************************************************)
QueueInit ==
  /\ main_q = <<>>
  /\ dlq = <<>>
  /\ job = [j \in JobIds |-> AbsentJob]
  /\ api = [a \in ApiSlots |-> IdleApi]
  /\ wk = [w \in Workers |-> IdleWorker]
  /\ nextJob = 0
  /\ nextTag = 0
  /\ fails = 0
  /\ hist = [j \in JobIds |-> <<>>]
  /\ placements = [j \in JobIds |-> 0]
  /\ started = <<>>
  /\ requeueOk = [j \in JobIds |-> 0]
  /\ deletedOk = [j \in JobIds |-> 0]
  /\ replied = [j \in JobIds |-> "none"]

QHistUnchanged == UNCHANGED <<placements, started, requeueOk, deletedOk, replied, fails>>

(***************************************************************************)
(* POST /submit-job                                                        *)
(***************************************************************************)
\* job_id = uuid4(); r.lpush(REDIS_QUEUE_NAME, json.dumps(job_payload))
SubmitLpush(a) ==
  /\ api[a].pc = "idle"
  /\ nextJob < MaxJobs
  /\ LET j == nextJob + 1
         e == [job_id |-> j, error |-> "unset", traceback |-> FALSE, tag |-> nextTag + 1]
     IN /\ nextJob' = j
        /\ nextTag' = nextTag + 1
        /\ main_q' = lpush(main_q, e)
        /\ api' = [api EXCEPT ![a] = [IdleApi EXCEPT !.op = "submit", !.pc = "s_hset",
                                                     !.job_id = j]]
        /\ started' = Append(started, 0)
        /\ placements' = [placements EXCEPT ![j] = 1]
  /\ UNCHANGED <<dlq, job, wk, fails, hist, requeueOk, deletedOk, replied>>
  /\ UNCHANGED nonQueue

\* r.hset(job:<id>, {status: queued, ...}); r.expire(...); return 202
SubmitHset(a) ==
  /\ api[a].pc = "s_hset"
  /\ LET j == api[a].job_id
     IN /\ job' = [job EXCEPT ![j] = hset_status(job[j], "queued")]
        /\ hist' = [hist EXCEPT ![j] = Append(hist[j], "queued")]
        /\ replied' = [replied EXCEPT ![j] = "202"]
  /\ api' = [api EXCEPT ![a] = IdleApi]
  /\ UNCHANGED <<main_q, dlq, wk, nextJob, nextTag>>
  /\ UNCHANGED <<placements, started, requeueOk, deletedOk, fails>>
  /\ UNCHANGED nonQueue

\* the exceptions a redis-py call of the handler can raise
RedisErrors == {"ConnectionError", "TimeoutError"}

\* submit_job's except clauses: 503 for redis.exceptions.ConnectionError, 500
\* for any other exception
submit_error(exc) == IF exc = "ConnectionError" THEN "503" ELSE "500"

\* r.lpush raises: nothing was written, the handler answers with the error
SubmitLpushRaises(a, exc) ==
  /\ api[a].pc = "idle"
  /\ nextJob < MaxJobs
  /\ nextJob' = nextJob + 1
  /\ replied' = [replied EXCEPT ![nextJob + 1] = submit_error(exc)]
  /\ UNCHANGED <<main_q, dlq, job, api, wk, nextTag, fails, hist, placements, started,
                 requeueOk, deletedOk>>
  /\ UNCHANGED nonQueue

\* r.hset raises after the envelope was pushed
SubmitHsetRaises(a, exc) ==
  /\ api[a].pc = "s_hset"
  /\ replied' = [replied EXCEPT ![api[a].job_id] = submit_error(exc)]
  /\ api' = [api EXCEPT ![a] = IdleApi]
  /\ UNCHANGED <<main_q, dlq, job, wk, nextJob, nextTag, fails, hist, placements, started,
                 requeueOk, deletedOk>>
  /\ UNCHANGED nonQueue

\* r.hset succeeds and r.expire, or r.llen for queue_position, raises
SubmitExpireRaises(a, exc) ==
  /\ api[a].pc = "s_hset"
  /\ LET j == api[a].job_id
     IN /\ job' = [job EXCEPT ![j] = hset_status(job[j], "queued")]
        /\ hist' = [hist EXCEPT ![j] = Append(hist[j], "queued")]
        /\ replied' = [replied EXCEPT ![j] = submit_error(exc)]
  /\ api' = [api EXCEPT ![a] = IdleApi]
  /\ UNCHANGED <<main_q, dlq, wk, nextJob, nextTag>>
  /\ UNCHANGED <<placements, started, requeueOk, deletedOk, fails>>
  /\ UNCHANGED nonQueue

(***************************************************************************)
(* POST /queue/dlq/requeue/{job_id}                                        *)
(***************************************************************************)
\* dlq_items = r.lrange(DLQ, 0, -1); search; 404 when the job is not found
RequeueLrange(a, j) ==
  /\ api[a].pc = "idle"
  /\ LET t == find_job(dlq, j)
     IN api' = [api EXCEPT ![a] =
                  IF t = NoEnv THEN IdleApi
                  ELSE [IdleApi EXCEPT !.op = "requeue", !.pc = "r_lrem",
                                       !.job_id = j, !.target = t]]
  /\ UNCHANGED <<main_q, dlq, job, wk, nextJob, nextTag, hist>>
  /\ QHistUnchanged
  /\ UNCHANGED nonQueue

\* r.lrem(DLQ, 1, target_item_raw)
RequeueLrem(a) ==
  /\ api[a].pc = "r_lrem"
  /\ dlq' = lrem1(dlq, api[a].target)
  /\ api' = [api EXCEPT ![a].pc = "r_lpush"]
  /\ UNCHANGED <<main_q, job, wk, nextJob, nextTag, hist>>
  /\ QHistUnchanged
  /\ UNCHANGED nonQueue

\* r.lpush(MAIN, target_item_raw)
RequeueLpush(a) ==
  /\ api[a].pc = "r_lpush"
  /\ main_q' = lpush(main_q, Placed(api[a].target, nextTag + 1))
  /\ nextTag' = nextTag + 1
  /\ started' = Append(started, 0)
  /\ api' = [api EXCEPT ![a].pc = "r_hset"]
  /\ hist' = [hist EXCEPT ![api[a].job_id] = <<>>]
  /\ placements' = [placements EXCEPT ![api[a].job_id] = @ + 1]
  /\ UNCHANGED <<dlq, job, wk, nextJob, requeueOk, deletedOk, replied, fails>>
  /\ UNCHANGED nonQueue

\* r.hset(job:<id>, {status: re-queued, error: ""}); return success
RequeueHset(a) ==
  /\ api[a].pc = "r_hset"
  /\ LET j == api[a].job_id
     IN /\ job' = [job EXCEPT ![j] = hset_status_error(job[j], "re-queued", "")]
        /\ hist' = [hist EXCEPT ![j] = Append(hist[j], "re-queued")]
        /\ requeueOk' = [requeueOk EXCEPT ![j] = @ + 1]
  /\ api' = [api EXCEPT ![a] = IdleApi]
  /\ UNCHANGED <<main_q, dlq, wk, nextJob, nextTag, placements, started, fails, deletedOk, replied>>
  /\ UNCHANGED nonQueue

(***************************************************************************)
(* POST /queue/dlq/requeue-all                                             *)
(***************************************************************************)
\* dlq_len = r.llen(DLQ); return at once when it is 0
RequeueAllLlen(a) ==
  /\ api[a].pc = "idle"
  /\ api' = [api EXCEPT ![a] =
               IF Len(dlq) = 0 THEN IdleApi
               ELSE [IdleApi EXCEPT !.op = "requeue_all", !.pc = "ra_move",
                                    !.at_start = {dlq[i].job_id : i \in 1..Len(dlq)}]]
  /\ UNCHANGED <<main_q, dlq, job, wk, nextJob, nextTag, hist>>
  /\ QHistUnchanged
  /\ UNCHANGED nonQueue

\* item = r.rpoplpush(DLQ, MAIN): tail of DLQ to head of MAIN; None ends the loop
RequeueAllMove(a) ==
  /\ api[a].pc = "ra_move"
  /\ IF dlq = <<>>
     THEN /\ api' = [api EXCEPT ![a] = IdleApi]
          /\ UNCHANGED <<main_q, dlq, nextTag, started, hist, placements>>
     ELSE LET item == dlq[Len(dlq)]
          IN /\ dlq' = SubSeq(dlq, 1, Len(dlq) - 1)
             /\ main_q' = lpush(main_q, Placed(item, nextTag + 1))
             /\ nextTag' = nextTag + 1
             /\ started' = Append(started, 0)
             /\ hist' = [hist EXCEPT ![item.job_id] = <<>>]
             /\ placements' = [placements EXCEPT ![item.job_id] = @ + 1]
             /\ api' = [api EXCEPT ![a].pc = "ra_hset", ![a].job_id = item.job_id,
                                   ![a].moved = Append(@, item.job_id)]
  /\ UNCHANGED <<job, wk, nextJob, requeueOk, deletedOk, replied, fails>>
  /\ UNCHANGED nonQueue

\* r.hset(job:<id>, {status: re-queued}); count += 1
RequeueAllHset(a) ==
  /\ api[a].pc = "ra_hset"
  /\ LET j == api[a].job_id
     IN /\ job' = [job EXCEPT ![j] = hset_status(job[j], "re-queued")]
        /\ hist' = [hist EXCEPT ![j] = Append(hist[j], "re-queued")]
  /\ api' = [api EXCEPT ![a].pc = "ra_move", ![a].job_id = NoJob, ![a].count = @ + 1]
  /\ UNCHANGED <<main_q, dlq, wk, nextJob, nextTag>>
  /\ QHistUnchanged
  /\ UNCHANGED nonQueue

(***************************************************************************)
(* DELETE /queue/dlq/{job_id}                                              *)
(***************************************************************************)
\* a DEL that leaves the hash in place
delete_key_kept(h) == h

\* r.delete(job:<id>)
delete_key(h) == AbsentJob

\* dlq_items = r.lrange(DLQ, 0, -1); search; 404 when the job is not found
DeleteLrange(a, j) ==
  /\ api[a].pc = "idle"
  /\ LET t == find_job(dlq, j)
     IN api' = [api EXCEPT ![a] =
                  IF t = NoEnv THEN IdleApi
                  ELSE [IdleApi EXCEPT !.op = "delete", !.pc = "d_lrem",
                                       !.job_id = j, !.target = t]]
  /\ UNCHANGED <<main_q, dlq, job, wk, nextJob, nextTag, hist>>
  /\ QHistUnchanged
  /\ UNCHANGED nonQueue

\* removed_count = r.lrem(DLQ, 1, target_item_raw)
DeleteLrem(a) ==
  /\ api[a].pc = "d_lrem"
  /\ dlq' = lrem1(dlq, api[a].target)
  /\ api' = [api EXCEPT ![a].pc = "d_delete",
                        ![a].count = Len(dlq) - Len(lrem1(dlq, api[a].target))]
  /\ UNCHANGED <<main_q, job, wk, nextJob, nextTag, hist>>
  /\ QHistUnchanged
  /\ UNCHANGED nonQueue

\* r.delete(job:<id>); return success
DeleteJob(a) ==
  /\ api[a].pc = "d_delete"
  /\ LET j == api[a].job_id
     IN /\ job' = [job EXCEPT ![j] = delete_key(job[j])]
        /\ deletedOk' = [deletedOk EXCEPT ![j] = @ + 1]
  /\ api' = [api EXCEPT ![a] = IdleApi]
  /\ UNCHANGED <<main_q, dlq, wk, nextJob, nextTag, hist, placements, started, requeueOk,
                 replied, fails>>
  /\ UNCHANGED nonQueue

(***************************************************************************)
(* run_worker: the main loop of one worker process                         *)
(***************************************************************************)
\* queue_name, job_data_raw = r.blpop(MAIN, timeout=0)
WorkerBlpop(w) ==
  /\ wk[w].pc = "blpop"
  /\ main_q # <<>>
  /\ wk' = [wk EXCEPT ![w] = [IdleWorker EXCEPT !.pc = "processing",
                                                !.job_data = blpop_item(main_q)]]
  /\ main_q' = blpop_rest(main_q)
  /\ UNCHANGED <<dlq, job, api, nextJob, nextTag, fails, hist, placements, started, requeueOk, deletedOk, replied>>
  /\ UNCHANGED nonQueue

\* update_job_status(r, job_id, "processing"); the worker builds the initial
\* state and enters app_graph.invoke: the pipeline run of the envelope starts
WorkerProcessing(w) ==
  /\ wk[w].pc = "processing"
  /\ LET j == wk[w].job_data.job_id
     IN /\ job' = [job EXCEPT ![j] = update_job_status(job[j], "processing", "unset")]
        /\ hist' = [hist EXCEPT ![j] = Append(hist[j], "processing")]
  /\ started' = [started EXCEPT ![wk[w].job_data.tag] = @ + 1]
  /\ wk' = [wk EXCEPT ![w].pc = "invoke", ![w].wrote = Append(@, [status |-> "processing", error |-> "unset"])]
  /\ UNCHANGED <<main_q, dlq, api, nextJob, nextTag, placements, requeueOk, deletedOk, replied, fails>>
  /\ UNCHANGED nonQueue

\* app_graph.invoke returns a state without error_message:
\* update_job_status(r, job_id, "completed", result=article_data)
WorkerCompleted(w) ==
  /\ wk[w].pc = "invoke"
  /\ LET j == wk[w].job_data.job_id
     IN /\ job' = [job EXCEPT ![j] = update_job_status(job[j], "completed", "unset")]
        /\ hist' = [hist EXCEPT ![j] = Append(hist[j], "completed")]
  /\ wk' = [wk EXCEPT ![w].pc = "loop", ![w].outcome = "ok",
                      ![w].wrote = Append(@, [status |-> "completed", error |-> "unset"])]
  /\ UNCHANGED <<main_q, dlq, api, nextJob, nextTag>>
  /\ QHistUnchanged
  /\ UNCHANGED nonQueue

\* app_graph.invoke returns a state with error_message:
\* update_job_status(r, job_id, "failed", error=error_message)
WorkerFailedStatus(w) ==
  /\ wk[w].pc = "invoke"
  /\ fails < MaxFails
  /\ fails' = fails + 1
  /\ LET j == wk[w].job_data.job_id
     IN /\ job' = [job EXCEPT ![j] = update_job_status(job[j], "failed", "error_message")]
        /\ hist' = [hist EXCEPT ![j] = Append(hist[j], "failed")]
  /\ wk' = [wk EXCEPT ![w].pc = "failed_dlq", ![w].outcome = "error",
                      ![w].wrote = Append(@, [status |-> "failed", error |-> "error_message"])]
  /\ UNCHANGED <<main_q, dlq, api, nextJob, nextTag, placements, started, requeueOk, deletedOk, replied>>
  /\ UNCHANGED nonQueue

\* job_data["error"] = error_message
failed_envelope(e) == [e EXCEPT !.error = "error_message", !.tag = 0]

\* a logical-failure branch that pushes the envelope twice
failed_push_twice(q, e) == lpush(lpush(q, failed_envelope(e)), failed_envelope(e))

\* the DLQ after the worker's push in the logical-failure branch
failed_push(q, e) == lpush(q, failed_envelope(e))

\* the logical-failure branch after the status write:
\* r.lpush(DLQ, json.dumps(job_data)), then
\* send_error_email(job_id, source_url, error_details=error_message)
WorkerFailedDlq(w) ==
  /\ wk[w].pc = "failed_dlq"
  /\ dlq' = failed_push(dlq, wk[w].job_data)
  /\ wk' = [wk EXCEPT ![w].pc = "loop",
                      ![w].job_data = failed_envelope(@),
                      ![w].pushes = SubSeq(dlq', 1, Len(dlq') - Len(dlq)),
                      ![w].mails = Append(@, [job_id |-> wk[w].job_data.job_id,
                                              traceback |-> FALSE])]
  /\ UNCHANGED <<main_q, job, api, nextJob, nextTag, hist>>
  /\ QHistUnchanged
  /\ UNCHANGED nonQueue

\* app_graph.invoke (or reading its result) raises:
\* update_job_status(r, job_id, "crashed", error=str(execution_error))
WorkerCrashedStatus(w, msg) ==
  /\ wk[w].pc = "invoke"
  /\ fails < MaxFails
  /\ fails' = fails + 1
  /\ LET j == wk[w].job_data.job_id
     IN /\ job' = [job EXCEPT ![j] = update_job_status(job[j], "crashed", msg)]
        /\ hist' = [hist EXCEPT ![j] = Append(hist[j], "crashed")]
  /\ wk' = [wk EXCEPT ![w].pc = "crashed_dlq", ![w].outcome = "crash",
                      ![w].wrote = Append(@, [status |-> "crashed", error |-> msg]),
                      ![w].job_data.error = msg]
  /\ UNCHANGED <<main_q, dlq, api, nextJob, nextTag, placements, started, requeueOk, deletedOk, replied>>
  /\ UNCHANGED nonQueue

\* str(execution_error): the message of the exception
CrashMessages == {"exception"}

\* a crash branch that forgets to attach the traceback
crashed_envelope_no_traceback(e) == [e EXCEPT !.tag = 0]

\* job_data["error"] = error_msg_str; job_data["traceback"] = traceback.format_exc()
crashed_envelope(e) == [e EXCEPT !.traceback = TRUE, !.tag = 0]

\* the DLQ after the worker's push in the crash branch
crashed_push(q, e) == lpush(q, crashed_envelope(e))

\* the crash branch after the status write:
\* r.lpush(DLQ, json.dumps(job_data)), then
\* send_error_email(job_id, source_url, error_details, traceback_info=format_exc())
WorkerCrashedDlq(w) ==
  /\ wk[w].pc = "crashed_dlq"
  /\ dlq' = crashed_push(dlq, wk[w].job_data)
  /\ wk' = [wk EXCEPT ![w].pc = "loop",
                      ![w].job_data = crashed_envelope(@),
                      ![w].pushes = SubSeq(dlq', 1, Len(dlq') - Len(dlq)),
                      ![w].mails = Append(@, [job_id |-> wk[w].job_data.job_id,
                                              traceback |-> TRUE])]
  /\ UNCHANGED <<main_q, job, api, nextJob, nextTag, hist>>
  /\ QHistUnchanged
  /\ UNCHANGED nonQueue

\* the position a worker takes when an iteration of "while True" ends
next_iteration(pc) == "blpop"

\* end of one iteration of "while True": back to the blocking pop
WorkerLoop(w) ==
  /\ wk[w].pc = "loop"
  /\ wk' = [wk EXCEPT ![w] = [IdleWorker EXCEPT !.pc = next_iteration(wk[w].pc)]]
  /\ UNCHANGED <<main_q, dlq, job, api, nextJob, nextTag, fails, hist, placements, started, requeueOk, deletedOk, replied>>
  /\ UNCHANGED nonQueue

(***************************************************************************)
(* The pipeline: MainWorkflowState and the nodes of the graph              *)
(***************************************************************************)
MaxRetries == 2
MaxMissing == 2

\* InvokeRequest.max_retries is an unconstrained int
RetryValues == (0 - 1)..MaxRetries

Urls == {"u1", "u2", "u3"}
Domains == {"d1", "d2"}

\* GovernanceGatekeeper._get_domain: urlparse(url).netloc
_get_domain(url) == IF url = "u3" THEN "d2" ELSE "d1"

\* RobotFileParser.can_fetch(user_agent, url) for the robots.txt files of the
\* two sites: d1 disallows the path of u2, d2 allows everything
rp_can_fetch(url) == url # "u2"

\* the lists of anchors extract_links can find in cleaned_article_html
LinkLists == {<<>>, <<"u2">>, <<"u1", "u3">>}

\* the semantic_score values of a ValidationResultModel; None is NoScore
NoScore == 0 - 1
Scores == {NoScore, 3, 7}

NoError == <<>>

NoArticle == [present |-> FALSE, summary |-> 0, embedded_links |-> <<>>,
              category |-> FALSE, seo |-> FALSE]

NoValidation == [present |-> FALSE, is_valid |-> FALSE, semantic_score |-> NoScore]

NoSnap == [set |-> FALSE, news_article |-> NoArticle, summary_attempts |-> <<>>,
           validation_count |-> 0, validation_result |-> NoValidation,
           error_message |-> NoError]

\* MainWorkflowState(source_url=source_url, max_retries=max_retries)
initial_state(url, mr) ==
  [source_url |-> url, cleaned_article_text |-> FALSE, cleaned_article_html |-> "none",
   news_article |-> NoArticle, active_prompts |-> FALSE, validation_count |-> 0,
   validation_result |-> NoValidation, summary_attempts |-> <<>>,
   other_sources |-> FALSE, max_retries |-> mr, error_message |-> NoError]

\* the fields the fail-fast rule is about
Snap(st) == [set |-> TRUE, news_article |-> st.news_article,
             summary_attempts |-> st.summary_attempts,
             validation_count |-> st.validation_count,
             validation_result |-> st.validation_result,
             error_message |-> st.error_message]

\* history: remember the state in which error_message first became non-null
NextSnap(st) == IF ~errSnap.set /\ st.error_message # NoError THEN Snap(st) ELSE errSnap

set_error(st, text, arg) == [st EXCEPT !.error_message = <<text, arg>>]

\* the worker is still inside app_graph.invoke
\* no request was sent to the webhook in this run
NoWebhook == [posts |-> 0, response |-> "none"]

NoEnd == [status |-> "processing", error |-> NoError, dlq |-> 0, mails |-> 0]

\* no can_fetch call stands behind the key of the domain
NoRead == [url |-> "none", live |-> "none"]

PipeInit ==
  /\ node = "load_agent_configuration"
  /\ \E url \in Urls, mr \in RetryValues : state = initial_state(url, mr)
  /\ robots_cache = [d \in Domains |-> "none"]
  /\ robots_live = [d \in Domains |-> NoRead]
  /\ canFetchTrue = {}
  /\ loaded = {}
  /\ errSnap = NoSnap
  /\ selectRuns = 0
  /\ worker_end = NoEnd
  /\ webhook = NoWebhook

\* the pipeline variables while the model follows the queue only
PipeIdle ==
  /\ node = "END"
  /\ state = initial_state("u1", 0)
  /\ robots_cache = [d \in Domains |-> "none"]
  /\ robots_live = [d \in Domains |-> NoRead]
  /\ canFetchTrue = {}
  /\ loaded = {}
  /\ errSnap = NoSnap
  /\ selectRuns = 0
  /\ worker_end = NoEnd
  /\ webhook = NoWebhook

\* one node has run: the new state, the node the graph's edge leads to
Step(st, next) ==
  /\ state' = st
  /\ node' = next
  /\ errSnap' = NextSnap(st)
  /\ UNCHANGED nonPipe

\* a node other than notify_webhook has run
NodeStep(st, next) ==
  /\ Step(st, next)
  /\ UNCHANGED <<worker_end, webhook>>

\* the logical names load_agent_configuration asks the prompts collection for
REQUIRED_PROMPTS ==
  {"content_extractor", "summary_system", "summary_initial_user", "summary_retry_user",
   "validation_system", "validation_user", "relevance_system", "relevance_user",
   "search_system", "search_user", "categorization_system", "categorization_user",
   "seo_system", "seo_user", "translation_system", "translation_user",
   "country_extraction_system", "country_extraction_user"}

\* the fields AgentPromptsModel declares, every one of them required
AgentPromptsFields ==
  {"content_extractor", "summary_system", "summary_initial_user", "summary_retry_user",
   "validation_system", "validation_user", "relevance_system", "relevance_user",
   "search_system", "search_user", "categorization_system", "categorization_user",
   "seo_system", "seo_user"}

\* AgentPromptsModel(**raw_prompts_dict): a ValidationError when a declared field
\* has no value; keys that are no field of the model are dropped
AgentPromptsModel(raw_prompts_dict) ==
  [raised |-> ~(AgentPromptsFields \subseteq raw_prompts_dict),
   fields |-> raw_prompts_dict \cap AgentPromptsFields]

NoConfig == [ran |-> FALSE, error_message |-> NoError, active_prompts |-> {},
             category_mapping |-> FALSE]

\* load_agent_configuration: the update it returns for the state, from the ACTIVE documents
\* of the prompts collection; db_ok is false when a MongoDB call raises
configuration_update(col, db_ok) ==
  LET raw_prompts_dict == col \cap REQUIRED_PROMPTS
      prompts_model    == AgentPromptsModel(raw_prompts_dict)
  IN  IF db_ok /\ ~prompts_model.raised
      THEN [ran |-> TRUE, error_message |-> NoError,
            active_prompts |-> prompts_model.fields, category_mapping |-> TRUE]
      ELSE [ran |-> TRUE,
            error_message |-> <<"Failed to load agent configuration: ", "e">>,
            active_prompts |-> {}, category_mapping |-> FALSE]

\* the contents of the prompts collection: at most MaxMissing of the names asked
\* for have no ACTIVE document
PromptCols ==
  {REQUIRED_PROMPTS \ m : m \in {x \in SUBSET REQUIRED_PROMPTS : Cardinality(x) <= MaxMissing}}

\* no pipeline has loaded its configuration, every prompt has its document
ConfigIdle == prompts_col = REQUIRED_PROMPTS /\ config = NoConfig

\* a pipeline run loads its configuration from the prompts collection as it is
RunLoadConfig(db_ok) ==
  /\ config' = configuration_update(prompts_col, db_ok)
  /\ UNCHANGED <<prompts_col, nonConfig>>

\* prompts collections for the pipeline: complete, one declared prompt missing,
\* one undeclared prompt missing
SomePromptCols ==
  {REQUIRED_PROMPTS, REQUIRED_PROMPTS \ {"validation_user"},
   REQUIRED_PROMPTS \ {"translation_user"}}

\* the node load_agent_configuration of the graph
load_agent_configuration(col, db_ok) ==
  /\ node = "load_agent_configuration"
  /\ LET update == configuration_update(col, db_ok)
     IN  NodeStep(IF update.error_message = NoError
                  THEN [state EXCEPT !.active_prompts = TRUE]
                  ELSE [state EXCEPT !.error_message = update.error_message],
                  "fetch_content")
  /\ UNCHANGED <<robots_cache, robots_live, canFetchTrue, loaded, selectRuns>>

\* GovernanceGatekeeper.can_fetch: the cached decision of the domain, else the
\* live robots.txt evaluated for this url (allow when robots.txt cannot be read)
can_fetch(url, cache, live) ==
  IF cache[_get_domain(url)] # "none" THEN cache[_get_domain(url)] = "1"
  ELSE IF live = "read" THEN rp_can_fetch(url) ELSE TRUE

\* the robots_cache keys after can_fetch: setex(robots_key, 86400, "1" or "0")
can_fetch_cache(url, cache, live) ==
  IF cache[_get_domain(url)] # "none" THEN cache
  ELSE [cache EXCEPT ![_get_domain(url)] = IF can_fetch(url, cache, live) THEN "1" ELSE "0"]

\* what the browser part of raw_extraction can end in
PageResults == {"connect_error", "page_error", "empty", "article", "article_no_top_node"}

\* raw_extraction after the governance check passed: the state it returns
extracted(st, page) ==
  CASE page \in {"connect_error", "page_error"} -> set_error(st, "Playwright Error: ", "e")
    [] page = "empty" -> set_error(st, "Extracted content is empty. Page Title: ", "t")
    [] page = "article" ->
         [st EXCEPT !.cleaned_article_text = TRUE, !.cleaned_article_html = "html",
                    !.news_article = [NoArticle EXCEPT !.present = TRUE]]
    [] page = "article_no_top_node" ->
         [st EXCEPT !.cleaned_article_text = TRUE, !.cleaned_article_html = "",
                    !.news_article = [NoArticle EXCEPT !.present = TRUE]]

\* fetch_content = raw_extraction: governance check, wait_for_slot, page load,
\* extraction.  wait_for_slot only delays here; its keys are followed in SpecGate.
fetch_content(live, page) ==
  /\ node = "fetch_content"
  /\ LET url == state.source_url
         allowed == can_fetch(url, robots_cache, live)
     IN /\ robots_cache' = can_fetch_cache(url, robots_cache, live)
        /\ UNCHANGED robots_live
        /\ canFetchTrue' = IF allowed THEN canFetchTrue \cup {url} ELSE canFetchTrue
        /\ loaded' = IF allowed /\ page # "connect_error" THEN loaded \cup {url} ELSE loaded
        /\ NodeStep(IF allowed THEN extracted(state, page)
                ELSE set_error(state, "Blocked by robots.txt: ", url),
                "extract_links")
  /\ UNCHANGED selectRuns

\* GovernanceGatekeeper() or its Redis read raises: the call is outside the try
fetch_content_raises ==
  /\ node = "fetch_content"
  /\ node' = "RAISED"
  /\ UNCHANGED <<state, robots_cache, robots_live, canFetchTrue, loaded, errSnap, selectRuns,
                 worker_end, webhook>>
  /\ UNCHANGED nonPipe

unscored(urls) == [i \in DOMAIN urls |-> [url |-> urls[i], relevance_score |-> NoScore]]

\* extract_links: res is the list of anchors found; ok is whether parsing succeeds
extract_links(ok, res) ==
  /\ node = "extract_links"
  /\ NodeStep(IF state.cleaned_article_html \in {"none", ""} THEN state
              ELSE IF ~state.news_article.present
                THEN set_error(state, "Link extractor ran before ArticleModel was initialized.", "")
              ELSE IF ~ok
                THEN set_error(state, "Error during link extraction: ", "e")
              ELSE [state EXCEPT !.news_article.embedded_links = unscored(res)],
              "generate_summary")
  /\ UNCHANGED <<robots_cache, robots_live, canFetchTrue, loaded, selectRuns>>

\* generate_summary: the summary text of attempt n is written n
generate_summary(ok) ==
  /\ node = "generate_summary"
  /\ NodeStep(IF ~state.cleaned_article_text
                THEN set_error(state, "Cannot generate summary: cleaned_article_text is missing.", "")
              ELSE IF ~state.news_article.present
                THEN set_error(state, "Cannot generate summary: news_article model is missing.", "")
              ELSE IF ~ok
                THEN set_error(state, "Error in generate_summary: ", "e")
              ELSE [state EXCEPT !.news_article.summary = state.validation_count + 1,
                                 !.validation_result = NoValidation],
              "validate_summary")
  /\ UNCHANGED <<robots_cache, robots_live, canFetchTrue, loaded, selectRuns>>

\* a validate_summary that counts the attempts recorded before this one
validated_count_before(st, ok, res) ==
  IF ~st.cleaned_article_text
    THEN set_error(st, "Cannot validate: cleaned_article_text is missing.", "")
  ELSE IF ~st.news_article.present \/ st.news_article.summary = 0
    THEN set_error(st, "Cannot validate: summary is missing.", "")
  ELSE IF ~st.active_prompts \/ ~ok
    THEN set_error(st, "Error in validate_summary: ", "e")
  ELSE [st EXCEPT !.validation_result = res,
                  !.summary_attempts = Append(st.summary_attempts,
                      [summary |-> st.news_article.summary, validation |-> res]),
                  !.validation_count = Len(st.summary_attempts)]

\* validate_summary: the state the node returns; res is the ValidationResultModel
\* of the critic, ok is whether the call succeeds
validated(st, ok, res) ==
  IF ~st.cleaned_article_text
    THEN set_error(st, "Cannot validate: cleaned_article_text is missing.", "")
  ELSE IF ~st.news_article.present \/ st.news_article.summary = 0
    THEN set_error(st, "Cannot validate: summary is missing.", "")
  ELSE IF ~st.active_prompts \/ ~ok
    THEN set_error(st, "Error in validate_summary: ", "e")
  ELSE LET updated_attempts_list ==
             Append(st.summary_attempts,
                    [summary |-> st.news_article.summary, validation |-> res])
       IN [st EXCEPT !.validation_result = res,
                     !.summary_attempts = updated_attempts_list,
                     !.validation_count = Len(updated_attempts_list)]

\* the conditional edge after validate_summary
\* the edge with a retry limit that is one attempt too late
check_summary_validity_late(st) ==
  IF ~st.validation_result.present THEN "end_loop"
  ELSE IF st.validation_result.is_valid THEN "end_loop"
  ELSE IF st.validation_count > st.max_retries THEN "end_loop"
  ELSE "regenerate"

check_summary_validity(st) ==
  IF ~st.validation_result.present THEN "end_loop"
  ELSE IF st.validation_result.is_valid THEN "end_loop"
  ELSE IF st.validation_count >= st.max_retries THEN "end_loop"
  ELSE "regenerate"

edge_target(label) == IF label = "regenerate" THEN "generate_summary" ELSE "select_best_summary"

Validations == {[present |-> TRUE, is_valid |-> v, semantic_score |-> sc] :
                  v \in BOOLEAN, sc \in Scores}

validate_summary(ok, res) ==
  /\ node = "validate_summary"
  /\ NodeStep(validated(state, ok, res),
              edge_target(check_summary_validity(validated(state, ok, res))))
  /\ UNCHANGED <<robots_cache, robots_live, canFetchTrue, loaded, selectRuns>>

\* attempt.validation.semantic_score or 0.0
score_key(attempt) ==
  IF attempt.validation.semantic_score = NoScore THEN 0 ELSE attempt.validation.semantic_score

\* a max that returns the last attempt with the greatest key
best_attempt_last(all_attempts) ==
  LET i == CHOOSE i \in DOMAIN all_attempts :
             /\ \A k \in DOMAIN all_attempts : score_key(all_attempts[k]) <= score_key(all_attempts[i])
             /\ \A k \in (i + 1)..Len(all_attempts) :
                  score_key(all_attempts[k]) < score_key(all_attempts[i])
  IN all_attempts[i]

\* max(all_attempts, key=...): the first attempt with the greatest key
best_attempt(all_attempts) ==
  LET i == CHOOSE i \in DOMAIN all_attempts :
             /\ \A k \in DOMAIN all_attempts : score_key(all_attempts[k]) <= score_key(all_attempts[i])
             /\ \A k \in 1..(i - 1) : score_key(all_attempts[k]) < score_key(all_attempts[i])
  IN all_attempts[i]

select_best_summary ==
  /\ node = "select_best_summary"
  /\ NodeStep(IF state.error_message # NoError THEN state
              ELSE IF state.summary_attempts = <<>>
                THEN set_error(state, "No summaries to select from.", "")
              ELSE [state EXCEPT !.news_article.summary = best_attempt(state.summary_attempts).summary,
                                 !.validation_result = best_attempt(state.summary_attempts).validation],
              "check_embedded_links")
  /\ selectRuns' = selectRuns + 1
  /\ UNCHANGED <<robots_cache, robots_live, canFetchTrue, loaded>>

\* what check_single_link can end in for one link: the context cannot be
\* opened, the page is loaded and something fails, the page is loaded and
\* scored, or context.close() raises in the finally clause
LinkResults == {"no_context", "load_failed", "scored", "close_raised"}

\* asyncio.gather(*tasks) raises what a task raised: check_single_link catches
\* everything but an exception of its finally clause
gather_raises(links, batch) == \E i \in DOMAIN links : batch[i] = "close_raised"

\* relevance_score of a link: res.score, or 0.0 on any error
link_score(r) == IF r = "scored" THEN 5 ELSE 0

\* the URLs check_single_link hands to page.goto
links_loaded(links, results) == {links[i].url : i \in {k \in DOMAIN links : results[k] # "no_context"}}

MaxLinks == 2

\* what the tasks of a batch can end in, one result per link of the article;
\* without a browser no task is created
LinkBatches(browser_ok) ==
  IF browser_ok THEN [DOMAIN state.news_article.embedded_links -> LinkResults]
  ELSE {<<>>}

\* check_embedded_links: browser_ok is whether the batch gets its browser,
\* batch gives what check_single_link ends in for the link at each position;
\* the outer except returns the state as it is
check_embedded_links(browser_ok, batch) ==
  /\ node = "check_embedded_links"
  /\ LET links == state.news_article.embedded_links
         skip == IF state.error_message # NoError THEN TRUE
                 ELSE IF ~state.news_article.present THEN TRUE
                 ELSE IF links = <<>> THEN TRUE
                 ELSE ~browser_ok
     IN /\ loaded' = IF skip THEN loaded ELSE loaded \cup links_loaded(links, batch)
        /\ NodeStep(IF skip \/ gather_raises(links, batch) THEN state
                ELSE [state EXCEPT !.news_article.embedded_links =
                        [i \in DOMAIN links |->
                           [links[i] EXCEPT !.relevance_score = link_score(batch[i])]]],
                "find_other_sources")
  /\ UNCHANGED <<robots_cache, robots_live, canFetchTrue, selectRuns>>

\* find_other_sources: ok is whether the query-generation LLM call succeeds;
\* a failing search call is skipped inside the node
find_other_sources(ok) ==
  /\ node = "find_other_sources"
  /\ NodeStep(IF ~state.news_article.present \/ state.news_article.summary = 0
                THEN set_error(state, "No article/summary found for web search.", "")
              ELSE IF ~ok THEN set_error(state, "Error in find_other_sources: ", "e")
              ELSE [state EXCEPT !.other_sources = TRUE],
              "categorize_article")
  /\ UNCHANGED <<robots_cache, robots_live, canFetchTrue, loaded, selectRuns>>

categorize_article(ok) ==
  /\ node = "categorize_article"
  /\ NodeStep(IF ~state.news_article.present \/ state.news_article.summary = 0
                THEN set_error(state, "No article/summary found for categorization.", "")
              ELSE IF ~state.active_prompts \/ ~ok THEN set_error(state, "Error in categorize: ", "e")
              ELSE [state EXCEPT !.news_article.category = TRUE],
              "generate_seo")
  /\ UNCHANGED <<robots_cache, robots_live, canFetchTrue, loaded, selectRuns>>

generate_seo(ok) ==
  /\ node = "generate_seo"
  /\ NodeStep(IF ~state.news_article.present THEN state
              ELSE IF ~state.active_prompts \/ ~ok THEN set_error(state, "SEO generation failed: ", "e")
              ELSE [state EXCEPT !.news_article.seo = TRUE],
              "notify_webhook")
  /\ UNCHANGED <<robots_cache, robots_live, canFetchTrue, loaded, selectRuns>>

\* what settings.WEBHOOK_URL and the receiver can do to notify_webhook: no URL
\* is configured, the receiver accepts, it answers another status, the request
\* times out, or requests.post raises something else
WebhookResults == {"no_url", "accepted", "refused", "timeout", "raised"}

\* a notify_webhook that skips its fail-fast check
webhook_posts_always(st, res) == res # "no_url" /\ st.news_article.present

\* notify_webhook reaches requests.post: no error so far, a URL is configured
\* and there is an article to send
webhook_posts(st, res) ==
  st.error_message = NoError /\ res # "no_url" /\ st.news_article.present

\* notify_webhook returns the state whatever the receiver answers
notify_webhook(res) ==
  /\ node = "notify_webhook"
  /\ Step(state, "END")
  /\ webhook' = IF webhook_posts(state, res)
                  THEN [posts |-> webhook.posts + 1, response |-> res]
                  ELSE webhook
  /\ UNCHANGED <<robots_cache, robots_live, canFetchTrue, loaded, selectRuns, worker_end>>

\* run_worker after app_graph.invoke: the branch it takes on the final state.
\* final_state.get("news_article").dict() raises when there is no article.
worker_branch(nd, st) ==
  IF nd = "RAISED" THEN "crashed"
  ELSE IF st.error_message # NoError THEN "failed"
  ELSE IF ~st.news_article.present THEN "crashed"
  ELSE "completed"

\* the status written, the error recorded for the job, the copies pushed to the
\* DLQ and the send_error_email calls of each branch
worker_report(nd, st) ==
  CASE worker_branch(nd, st) = "completed" ->
         [status |-> "completed", error |-> NoError, dlq |-> 0, mails |-> 0]
    [] worker_branch(nd, st) = "failed" ->
         [status |-> "failed", error |-> st.error_message, dlq |-> 1, mails |-> 1]
    [] worker_branch(nd, st) = "crashed" ->
         [status |-> "crashed", error |-> <<"exception", "e">>, dlq |-> 1, mails |-> 1]

\* app_graph.invoke has returned or raised: the rest of the worker's iteration
WorkerResult ==
  /\ node \in {"END", "RAISED"}
  /\ worker_end = NoEnd
  /\ worker_end' = worker_report(node, state)
  /\ UNCHANGED <<node, state, robots_cache, robots_live, canFetchTrue, loaded, errSnap, selectRuns,
                 webhook>>
  /\ UNCHANGED nonPipe

\* the worker dequeues the next envelope and invokes the graph again
StartRun(url, mr) ==
  /\ node \in {"END", "RAISED"}
  /\ worker_end # NoEnd
  /\ worker_end' = NoEnd
  /\ webhook' = NoWebhook
  /\ node' = "load_agent_configuration"
  /\ state' = initial_state(url, mr)
  /\ errSnap' = NoSnap
  /\ selectRuns' = 0
  /\ canFetchTrue' = {}
  /\ loaded' = {}
  /\ UNCHANGED <<robots_cache, robots_live>>
  /\ UNCHANGED nonPipe

\* a robots_cache:<domain> key reaches its TTL
RobotsCacheExpire(d) ==
  /\ robots_cache[d] # "none"
  /\ robots_cache' = [robots_cache EXCEPT ![d] = "none"]
  /\ robots_live' = [robots_live EXCEPT ![d] = NoRead]
  /\ UNCHANGED <<node, state, canFetchTrue, loaded, errSnap, selectRuns, worker_end, webhook>>
  /\ UNCHANGED nonPipe

(***************************************************************************)
(* The governance gate: fetching processes and rate_limit:<domain>         *)
(***************************************************************************)
\* the scheduler process next to the worker processes
Fetchers == Workers \cup {"scheduler"}

\* _get_dynamic_delay(domain, default_delay=5)
default_delay == 5

\* delay_seconds of the source document whose listing_url is on d1
SourceDelay == 2

\* GovernanceGatekeeper._get_dynamic_delay: the source's delay_seconds, else the default
_get_dynamic_delay(domain) == IF domain = "d1" THEN SourceDelay ELSE default_delay

NoLoad == 0 - 1

\* since_load stops counting here: every delay has elapsed
LoadAgeCap == IF SourceDelay > default_delay THEN SourceDelay ELSE default_delay

IdleFetcher == [pc |-> "idle", url |-> "none", slot |-> FALSE, sleep |-> 0]

GateInit ==
  /\ gate = [f \in Fetchers |-> IdleFetcher]
  /\ rate_limit = [d \in Domains |-> 0]
  /\ since_load = [d \in Domains |-> NoLoad]
  /\ since_slot = [d \in Domains |-> NoLoad]

GateStep(f, g) ==
  /\ gate' = [gate EXCEPT ![f] = g]
  /\ UNCHANGED nonGate

\* raw_extraction after can_fetch returned true: gatekeeper.wait_for_slot(url)
RawExtractionWait(f, url) ==
  /\ f \in Workers
  /\ gate[f].pc = "idle"
  /\ GateStep(f, [IdleFetcher EXCEPT !.pc = "set", !.url = url])
  /\ UNCHANGED <<rate_limit, since_load, since_slot>>

\* a SET without nx: the reply is OK whether or not the key exists
is_acquired_always(ttl) == TRUE

\* the reply of redis.set(lock_key, "locked", nx=True, px=...): OK only when
\* the key does not exist (ttl is the key's remaining life, 0 when absent)
is_acquired(ttl) == ttl = 0

\* wait_for_slot: redis.set(lock_key, "locked", nx=True, px=delay_seconds * 1000)
\* and the branch on its reply
slot_set(f) ==
  /\ gate[f].pc = "set"
  /\ LET domain == _get_domain(gate[f].url)
     IN /\ rate_limit' = IF is_acquired(rate_limit[domain])
                           THEN [rate_limit EXCEPT ![domain] = _get_dynamic_delay(domain)]
                           ELSE rate_limit
        /\ GateStep(f, IF is_acquired(rate_limit[domain])
                         THEN [gate[f] EXCEPT !.pc = "goto_article", !.slot = TRUE]
                         ELSE [gate[f] EXCEPT !.pc = "pttl"])

WaitForSlotSet(f) ==
  /\ slot_set(f)
  /\ UNCHANGED <<since_load, since_slot>>

\* the same step with the moment of the return recorded
WaitForSlotSetTimed(f) ==
  /\ slot_set(f)
  /\ since_slot' = IF gate'[f].pc = "goto_article"
                     THEN [since_slot EXCEPT ![_get_domain(gate[f].url)] = 0]
                     ELSE since_slot
  /\ UNCHANGED since_load

\* wait_for_slot: ttl = redis.pttl(lock_key); sleep ttl + 0.1 s, or 1 s when
\* the key is gone by now
WaitForSlotPttl(f) ==
  /\ gate[f].pc = "pttl"
  /\ LET ttl == rate_limit[_get_domain(gate[f].url)]
     IN GateStep(f, [gate[f] EXCEPT !.pc = "sleep", !.sleep = IF ttl > 0 THEN ttl ELSE 1])
  /\ UNCHANGED <<rate_limit, since_load, since_slot>>

\* time.sleep returns: the next turn of wait_for_slot's loop
WaitForSlotWake(f) ==
  /\ gate[f].pc = "sleep"
  /\ gate[f].sleep = 0
  /\ GateStep(f, [gate[f] EXCEPT !.pc = "set"])
  /\ UNCHANGED <<rate_limit, since_load, since_slot>>

\* a page of the domain is requested now
page_load(domain) == [since_load EXCEPT ![domain] = 0]

\* raw_extraction: page.goto(url); the pipeline goes on to link scoring
RawExtractionGoto(f) ==
  /\ gate[f].pc = "goto_article"
  /\ since_load' = page_load(_get_domain(gate[f].url))
  /\ GateStep(f, [IdleFetcher EXCEPT !.pc = "scoring"])
  /\ UNCHANGED <<rate_limit, since_slot>>

\* check_embedded_links: check_single_link(link) is started for a link
CheckSingleLink(f, url) ==
  /\ gate[f].pc = "scoring"
  /\ GateStep(f, [IdleFetcher EXCEPT !.pc = "goto_link", !.url = url])
  /\ UNCHANGED <<rate_limit, since_load, since_slot>>

\* check_single_link: page.goto(link.url)
CheckSingleLinkGoto(f) ==
  /\ gate[f].pc = "goto_link"
  /\ since_load' = page_load(_get_domain(gate[f].url))
  /\ GateStep(f, [IdleFetcher EXCEPT !.pc = "scoring"])
  /\ UNCHANGED <<rate_limit, since_slot>>

\* check_embedded_links returns; the run ends without further page loads
CheckEmbeddedLinksDone(f) ==
  /\ gate[f].pc = "scoring"
  /\ GateStep(f, IdleFetcher)
  /\ UNCHANGED <<rate_limit, since_load, since_slot>>

\* scheduler, check_single_source: fetch_listing_page(url) is called
CheckSingleSource(url) ==
  /\ gate["scheduler"].pc = "idle"
  /\ GateStep("scheduler", [IdleFetcher EXCEPT !.pc = "get_listing", !.url = url])
  /\ UNCHANGED <<rate_limit, since_load, since_slot>>

\* fetch_listing_page: session.get(url, timeout=30)
FetchListingPageGet ==
  /\ gate["scheduler"].pc = "get_listing"
  /\ since_load' = page_load(_get_domain(gate["scheduler"].url))
  /\ GateStep("scheduler", IdleFetcher)
  /\ UNCHANGED <<rate_limit, since_slot>>

\* one second passes: key TTLs and sleeps run down
Tick ==
  /\ rate_limit' = [d \in Domains |-> IF rate_limit[d] > 0 THEN rate_limit[d] - 1 ELSE 0]
  /\ gate' = [f \in Fetchers |->
                [gate[f] EXCEPT !.sleep = IF gate[f].sleep > 0 THEN gate[f].sleep - 1 ELSE 0]]
  /\ since_load' = [d \in Domains |->
                      IF since_load[d] = NoLoad \/ since_load[d] >= LoadAgeCap
                        THEN since_load[d] ELSE since_load[d] + 1]
  /\ since_slot' = [d \in Domains |->
                      IF since_slot[d] = NoLoad \/ since_slot[d] >= LoadAgeCap
                        THEN since_slot[d] ELSE since_slot[d] + 1]
  /\ <<rate_limit', gate', since_load', since_slot'>> # <<rate_limit, gate, since_load, since_slot>>
  /\ UNCHANGED nonGate

(***************************************************************************)
(* The scheduler (src/scheduler/main.py)                                   *)
(***************************************************************************)
MaxChecks == 4
MaxNow == 2
MaxInterval == 2
MaxMails == 1

\* CONCURRENCY_LIMIT = asyncio.Semaphore(3)
CONCURRENCY_LIMIT == 3

Sources == {"s1", "s2"}
ArticleUrls == {"a1", "a2"}

\* source["listing_url"]
listing_url(s) == IF s = "s1" THEN "u1" ELSE "u2"

\* the sets extract_valid_urls can return for the listing page of a source
PageLinks(s) == IF s = "s1" THEN {{}, {"a1"}, {"a1", "a2"}} ELSE {{}, {"a2"}}

\* last_run_at of a source that was never checked (null)
NoRun == 0 - 1

NoLink == "none"

\* the latest step raised nothing
NoExc == [stage |-> "none", source |-> "none"]

\* a check_single_source task that asyncio.create_task or BackgroundTasks set up
NewCheck(s) ==
  [pc |-> "created", source |-> s, found_urls |-> {}, new_urls |-> {}, link |-> NoLink]

SchedIdle ==
  /\ now = 0
  /\ sources_col = [s \in Sources |->
                      [is_active |-> TRUE, last_run_at |-> NoRun,
                       fetch_interval_minutes |-> 1]]
  /\ articles_col = [u \in ArticleUrls |-> <<>>]
  /\ checks = EmptyBag
  /\ submit_job = [u \in ArticleUrls |-> 0]
  /\ mails = [s \in Sources |-> 0]
  /\ sem = CONCURRENCY_LIMIT
  /\ last_exc = NoExc
  /\ dispatched = [s \in Sources |-> NoRun]

\* the sources as an administrator configured them, one active and one
\* switched off; nothing was checked yet
SchedInit ==
  /\ now = 0
  /\ sources_col = [s \in Sources |->
                      IF s = "s1"
                        THEN [is_active |-> TRUE, last_run_at |-> NoRun,
                              fetch_interval_minutes |-> MaxInterval]
                        ELSE [is_active |-> FALSE, last_run_at |-> NoRun,
                              fetch_interval_minutes |-> 1]]
  /\ articles_col = [u \in ArticleUrls |-> <<>>]
  /\ checks = EmptyBag
  /\ submit_job = [u \in ArticleUrls |-> 0]
  /\ mails = [s \in Sources |-> 0]
  /\ sem = CONCURRENCY_LIMIT
  /\ last_exc = NoExc
  /\ dispatched = [s \in Sources |-> NoRun]

\* a run_scheduler_cycle that dispatches on a strictly longer gap
should_run_later(source_doc, current_time) ==
  IF source_doc.last_run_at = NoRun THEN TRUE
  ELSE current_time - source_doc.last_run_at > source_doc.fetch_interval_minutes

\* run_scheduler_cycle: should_run for one document of the cursor
should_run(source_doc, current_time) ==
  IF source_doc.last_run_at = NoRun THEN TRUE
  ELSE current_time - source_doc.last_run_at >= source_doc.fetch_interval_minutes

\* run_scheduler_cycle: the documents sources_col.find({"is_active": True}) yields
active_sources(col) == {s \in Sources : col[s].is_active}

\* one task moves on
Moved(chk, t, t2) == (chk (-) SetToBag({t})) (+) SetToBag({t2})

\* the interval trigger fires a minute later: run_scheduler_cycle calls
\* asyncio.create_task(check_single_source(source_doc)) for each due document
run_scheduler_cycle ==
  /\ now < MaxNow
  /\ now' = now + 1
  /\ LET due == {s \in active_sources(sources_col) : should_run(sources_col[s], now')}
     IN /\ BagCardinality(checks) + Cardinality(due) <= MaxChecks
        /\ checks' = checks (+) SetToBag({NewCheck(s) : s \in due})
  /\ UNCHANGED <<sources_col, articles_col, submit_job, mails, sem>>
  /\ last_exc' = NoExc
  /\ UNCHANGED nonSched

RunSchedulerCycle ==
  /\ run_scheduler_cycle
  /\ UNCHANGED dispatched

\* the same cycle with the time of each dispatch recorded
RunSchedulerCycleTimed ==
  /\ run_scheduler_cycle
  /\ dispatched' = [s \in Sources |->
                      IF s \in active_sources(sources_col) /\ should_run(sources_col[s], now')
                        THEN now' ELSE dispatched[s]]

\* POST /sources/{source_id}/run: trigger_source_run adds check_single_source
\* to the background tasks
TriggerSourceRun(s) ==
  /\ BagCardinality(checks) < MaxChecks
  /\ checks' = checks (+) SetToBag({NewCheck(s)})
  /\ UNCHANGED <<now, sources_col, articles_col, submit_job, mails, sem>>
  /\ last_exc' = NoExc
  /\ UNCHANGED dispatched
  /\ UNCHANGED nonSched

\* the positions inside "async with CONCURRENCY_LIMIT"
InsidePcs == {"fetch", "post"}

\* the tasks inside "async with CONCURRENCY_LIMIT"
Inside(chk) == BagCardinality([t \in {x \in BagToSet(chk) : x.pc \in InsidePcs} |-> chk[t]])

\* a semaphore that admits every caller
locked_never(value) == FALSE

\* asyncio.Semaphore.locked: acquire waits while no slot is free
locked(value) == value = 0

\* a notifier that sends every error email twice
send_error_email_twice(m, s) == [m EXCEPT ![s] = @ + 2]

\* an insert into a collection without the unique index on url
insert_one_no_index(col, url) ==
  [raised |-> FALSE, col |-> [col EXCEPT ![url] = Append(@, "queued")]]

\* articles_col.insert_one(new_article) under the unique index on url
insert_one(col, url) ==
  IF col[url] # <<>> THEN [raised |-> TRUE, col |-> col]
  ELSE [raised |-> FALSE, col |-> [col EXCEPT ![url] = Append(@, "queued")]]

\* articles_col.update_one({"_id": ...}, {"$set": {"status": "submission_failed"}})
set_submission_failed(col, url) ==
  [col EXCEPT ![url] = [@ EXCEPT ![Len(@)] = "submission_failed"]]

\* sources_col.update_one({"_id": source_id}, {"$set": {"last_run_at": now}})
set_last_run_at(col, s, t) == [col EXCEPT ![s].last_run_at = t]

\* send_error_email(job_id=f"scheduler-{source_id}", ...)
send_error_email(m, s) == [m EXCEPT ![s] = @ + 1]

\* a task leaves check_single_source; "async with" releases the semaphore on
\* the way out
Return(t) ==
  /\ checks' = checks (-) SetToBag({t})
  /\ sem' = sem + 1

\* check_single_source, the outer "except Exception"
OuterExcept(t) ==
  /\ mails["s1"] + mails["s2"] < MaxMails
  /\ mails' = send_error_email(mails, t.source)
  /\ Return(t)

RECURSIVE for_link_in(_, _)
\* "for link in new_urls" up to the next await: the links are taken in any
\* order; a link whose insert_one raises is skipped; after an insert the POST
\* to /submit-job is awaited (link is the one posted); when no link is left
\* the loop is over (link is NoLink)
for_link_in(col, new_urls) ==
  IF new_urls = {} THEN {[col |-> col, link |-> NoLink, new_urls |-> {}]}
  ELSE UNION {LET r == insert_one(col, l)
              IN IF r.raised THEN for_link_in(col, new_urls \ {l})
                 ELSE {[col |-> r.col, link |-> l, new_urls |-> new_urls \ {l}]}
              : l \in new_urls}

\* the loop runs on from the links it has not reached yet; after it
\* "4. Update Source Last Run" and return
LoopOn(t, found_urls, col, new_urls) ==
  \E o \in for_link_in(col, new_urls) :
    /\ articles_col' = o.col
    /\ IF o.link = NoLink
         THEN /\ sources_col' = set_last_run_at(sources_col, t.source, now)
              /\ Return(t)
         ELSE /\ checks' = Moved(checks, t, [t EXCEPT !.pc = "post", !.link = o.link,
                                                      !.found_urls = found_urls,
                                                      !.new_urls = o.new_urls])
              /\ UNCHANGED <<sources_col, sem>>

\* check_single_source enters "async with CONCURRENCY_LIMIT" and awaits
\* fetch_listing_page(url)
CheckAcquire(t) ==
  /\ t.pc = "created"
  /\ ~locked(sem)
  /\ sem' = sem - 1
  /\ checks' = Moved(checks, t, [t EXCEPT !.pc = "fetch"])
  /\ UNCHANGED <<now, sources_col, articles_col, submit_job, mails>>
  /\ last_exc' = NoExc
  /\ UNCHANGED dispatched
  /\ UNCHANGED nonSched

\* fetch_listing_page raised
CheckFetchRaised(t) ==
  /\ t.pc = "fetch"
  /\ OuterExcept(t)
  /\ UNCHANGED <<now, sources_col, articles_col, submit_job>>
  /\ last_exc' = [stage |-> "fetch", source |-> t.source]
  /\ UNCHANGED dispatched
  /\ UNCHANGED nonSched

\* fetch_listing_page returned, extract_valid_urls found nothing
CheckNoUrls(t) ==
  /\ t.pc = "fetch"
  /\ sources_col' = set_last_run_at(sources_col, t.source, now)
  /\ Return(t)
  /\ UNCHANGED <<now, articles_col, submit_job, mails>>
  /\ last_exc' = NoExc
  /\ UNCHANGED dispatched
  /\ UNCHANGED nonSched

\* fetch_listing_page returned, extract_valid_urls found links, but
\* articles_col.find({"url": {"$in": found_urls}}) raised
CheckFindRaised(t) ==
  /\ t.pc = "fetch"
  /\ OuterExcept(t)
  /\ UNCHANGED <<now, sources_col, articles_col, submit_job>>
  /\ last_exc' = [stage |-> "dedup", source |-> t.source]
  /\ UNCHANGED dispatched
  /\ UNCHANGED nonSched

\* fetch_listing_page returned, extract_valid_urls found links,
\* new_urls = found_urls - existing_urls, and the loop runs up to its first POST
CheckDeduplicate(t, links) ==
  /\ t.pc = "fetch"
  /\ links \in PageLinks(t.source) \ {{}}
  /\ LET existing_urls == {u \in links : articles_col[u] # <<>>}
     IN LoopOn(t, links, articles_col, links \ existing_urls)
  /\ UNCHANGED <<now, submit_job, mails>>
  /\ last_exc' = NoExc
  /\ UNCHANGED dispatched
  /\ UNCHANGED nonSched

\* http_client.post(api_url, json=payload) returned, resp.raise_for_status()
\* passed, and the loop runs on
CheckPosted(t) ==
  /\ t.pc = "post"
  /\ submit_job' = [submit_job EXCEPT ![t.link] = @ + 1]
  /\ LoopOn(t, t.found_urls, articles_col, t.new_urls)
  /\ UNCHANGED <<now, mails>>
  /\ last_exc' = NoExc
  /\ UNCHANGED dispatched
  /\ UNCHANGED nonSched

\* the POST raised: the row is marked submission_failed and the loop runs on
CheckPostFailed(t) ==
  /\ t.pc = "post"
  /\ LoopOn(t, t.found_urls, set_submission_failed(articles_col, t.link), t.new_urls)
  /\ UNCHANGED <<now, submit_job, mails>>
  /\ last_exc' = [stage |-> "submit", source |-> t.source]
  /\ UNCHANGED dispatched
  /\ UNCHANGED nonSched

(***************************************************************************)
(* check_embedded_links: the batch, the semaphore and the browser contexts *)
(***************************************************************************)
\* the embedded links one article can have
MaxBatch == 9

\* BROWSER_SEMAPHORE = asyncio.Semaphore(8)
BROWSER_SEMAPHORE == 8

NoTasks == [wait |-> 0, held |-> 0, open |-> 0]

\* the check_single_link tasks that have not finished
Live(t) == t.wait + t.held + t.open

LinksIdle ==
  /\ links_batch = "idle"
  /\ link_tasks = NoTasks
  /\ browser_sem = BROWSER_SEMAPHORE
  /\ contexts = 0

\* check_embedded_links calls _process_links_batch for n links; when the browser
\* set-up raises the node returns at once, else a task is created per link and
\* asyncio.gather is awaited
ProcessLinksBatch(n, browser_ok) ==
  /\ links_batch \in {"idle", "returned"}
  /\ Live(link_tasks) + n <= MaxBatch
  /\ IF browser_ok
     THEN /\ links_batch' = "gather"
          /\ link_tasks' = [link_tasks EXCEPT !.wait = @ + n]
     ELSE /\ links_batch' = "returned"
          /\ UNCHANGED link_tasks
  /\ UNCHANGED <<browser_sem, contexts>>
  /\ UNCHANGED nonLinks

\* check_single_link: "async with BROWSER_SEMAPHORE" is entered
SemaphoreAcquire ==
  /\ link_tasks.wait > 0
  /\ browser_sem > 0
  /\ browser_sem' = browser_sem - 1
  /\ link_tasks' = [link_tasks EXCEPT !.wait = @ - 1, !.held = @ + 1]
  /\ UNCHANGED <<links_batch, contexts>>
  /\ UNCHANGED nonLinks

\* check_single_link: browser.new_context(...); when it raises, context is
\* None, the link gets 0.0, the finally clause closes nothing and the
\* semaphore is released.  A browser that was closed opens no context.
NewContext(ok) ==
  /\ link_tasks.held > 0
  /\ IF ok /\ links_batch = "gather"
     THEN /\ link_tasks' = [link_tasks EXCEPT !.held = @ - 1, !.open = @ + 1]
          /\ contexts' = contexts + 1
          /\ UNCHANGED browser_sem
     ELSE /\ link_tasks' = [link_tasks EXCEPT !.held = @ - 1]
          /\ browser_sem' = browser_sem + 1
          /\ UNCHANGED contexts
  /\ UNCHANGED links_batch
  /\ UNCHANGED nonLinks

\* a context.close() that raised leaves the context open or closed
close_left(n, left_open) == IF left_open \/ n = 0 THEN n ELSE n - 1

\* check_single_link with a context: the page is loaded and scored, or
\* something raises and the link gets 0.0; either way the finally clause
\* awaits context.close() and the semaphore is released.  When close() raises,
\* the exception leaves the task and asyncio.gather raises it in
\* _process_links_batch, which goes on to close the browser.
CheckSingleLinkEnd(close_ok, left_open) ==
  /\ link_tasks.open > 0
  /\ link_tasks' = [link_tasks EXCEPT !.open = @ - 1]
  /\ browser_sem' = browser_sem + 1
  /\ contexts' = IF close_ok THEN (IF contexts > 0 THEN contexts - 1 ELSE 0)
                 ELSE close_left(contexts, left_open)
  /\ links_batch' = IF ~close_ok /\ links_batch = "gather" THEN "closing" ELSE links_batch
  /\ UNCHANGED nonLinks

\* asyncio.gather returns the results of all tasks
GatherReturns ==
  /\ links_batch = "gather"
  /\ Live(link_tasks) = 0
  /\ links_batch' = "closing"
  /\ UNCHANGED <<link_tasks, browser_sem, contexts>>
  /\ UNCHANGED nonLinks

\* get_async_browser_context, finally: browser.close() closes the contexts of
\* the browser; check_embedded_links returns the state
BrowserClose ==
  /\ links_batch = "closing"
  /\ links_batch' = "returned"
  /\ contexts' = 0
  /\ UNCHANGED <<link_tasks, browser_sem>>
  /\ UNCHANGED nonLinks

LNextLinks ==
  \/ \E n \in 1..MaxBatch, browser_ok \in BOOLEAN : ProcessLinksBatch(n, browser_ok)
  \/ SemaphoreAcquire
  \/ \E ok \in BOOLEAN : NewContext(ok)
  \/ \E close_ok \in BOOLEAN, left_open \in BOOLEAN : CheckSingleLinkEnd(close_ok, left_open)
  \/ GatherReturns
  \/ BrowserClose

(***************************************************************************)
(* The article handlers of the scheduler's API (src/scheduler/main.py)     *)
(***************************************************************************)
MaxArticles == 3

ArticleIds == 1..MaxArticles

StoreIdle ==
  /\ processed_articles = {}
  /\ archived_articles = {}
  /\ deleted_articles = {}
  /\ next_id = 0
  /\ moved = {}
  /\ job_posts = [u \in ArticleUrls |-> 0]

\* collection.find_one({"_id": article_id}) as the set of matching documents
find_one(col, article_id) == {d \in col : d._id = article_id}

\* the unique indexes of an article collection: _id and url
duplicate_key(col, doc) == \E d \in col : d._id = doc._id \/ d.url = doc.url

\* collection.insert_one(doc): DuplicateKeyError leaves the collection as it is
insert_doc(col, doc) ==
  [raised |-> duplicate_key(col, doc),
   col    |-> IF duplicate_key(col, doc) THEN col ELSE col \cup {doc}]

\* collection.delete_one({"_id": article_id})
delete_one(col, article_id) == {d \in col : d._id # article_id}

\* check_single_source finds link u on a listing page: a link processed_articles
\* does not hold is inserted and posted to the Job API
DiscoverArticle(u) ==
  /\ next_id < MaxArticles
  /\ ~\E d \in processed_articles : d.url = u
  /\ processed_articles' =
       insert_doc(processed_articles, [_id |-> next_id + 1, url |-> u, status |-> "queued"]).col
  /\ next_id' = next_id + 1
  /\ job_posts' = [job_posts EXCEPT ![u] = @ + 1]
  /\ UNCHANGED <<archived_articles, deleted_articles, moved>>
  /\ UNCHANGED nonStore

\* POST /webhook/store-result: update the document of the url, insert one when
\* processed_articles holds none
store_result(u) ==
  /\ IF \E d \in processed_articles : d.url = u
     THEN /\ processed_articles' =
               {IF d.url = u THEN [d EXCEPT !.status = "processed"] ELSE d :
                  d \in processed_articles}
          /\ UNCHANGED next_id
     ELSE /\ next_id < MaxArticles
          /\ processed_articles' =
               insert_doc(processed_articles,
                          [_id |-> next_id + 1, url |-> u, status |-> "processed"]).col
          /\ next_id' = next_id + 1
  /\ UNCHANGED <<archived_articles, deleted_articles, moved, job_posts>>
  /\ UNCHANGED nonStore

\* the body shared by archive_article and soft_delete_article: find the document
\* (404 when there is none), insert it into the target collection, carry on
\* when that raised a duplicate key error and answer 500 for any other error,
\* then delete it from processed_articles and report success
move_article(article_id, target, other_error) ==
  LET found == find_one(processed_articles, article_id)
  IN  IF found = {} \/ other_error
      THEN [processed |-> processed_articles, target |-> target, moved |-> moved]
      ELSE LET article == CHOOSE d \in found : TRUE
           IN  [processed |-> delete_one(processed_articles, article_id),
                target    |-> insert_doc(target, article).col,
                moved     |-> moved \cup {article}]

\* POST /articles/{article_id}/archive
archive_article(article_id, other_error) ==
  LET r == move_article(article_id, archived_articles, other_error)
  IN  /\ processed_articles' = r.processed
      /\ archived_articles' = r.target
      /\ moved' = r.moved
      /\ UNCHANGED <<deleted_articles, next_id, job_posts>>
      /\ UNCHANGED nonStore

\* DELETE /articles/{article_id}
soft_delete_article(article_id, other_error) ==
  LET r == move_article(article_id, deleted_articles, other_error)
  IN  /\ processed_articles' = r.processed
      /\ deleted_articles' = r.target
      /\ moved' = r.moved
      /\ UNCHANGED <<archived_articles, next_id, job_posts>>
      /\ UNCHANGED nonStore

ANext ==
  \/ \E u \in ArticleUrls : DiscoverArticle(u)
  \/ \E u \in ArticleUrls : store_result(u)
  \/ \E i \in ArticleIds, other_error \in BOOLEAN : archive_article(i, other_error)
  \/ \E i \in ArticleIds, other_error \in BOOLEAN : soft_delete_article(i, other_error)

LInit == LinksIdle /\ QueueInit /\ PipeIdle /\ GateInit /\ SchedIdle /\ ConfigIdle /\ StoreIdle

\* the link batches of one worker process, one pipeline run after the other
SpecLinks == LInit /\ [][LNextLinks]_vars

AInit == StoreIdle /\ QueueInit /\ PipeIdle /\ GateInit /\ SchedIdle /\ ConfigIdle /\ LinksIdle

\* the article handlers in every order; each runs to its end before the next
\* starts, as they make only blocking pymongo calls on the one event loop
SpecArticles == AInit /\ [][ANext]_vars

SNext ==
  \/ RunSchedulerCycle
  \/ \E s \in Sources : TriggerSourceRun(s)
  \/ \E t \in BagToSet(checks) : CheckAcquire(t)
  \/ \E t \in BagToSet(checks) : CheckFetchRaised(t)
  \/ \E t \in BagToSet(checks) : CheckNoUrls(t)
  \/ \E t \in BagToSet(checks) : CheckFindRaised(t)
  \/ \E t \in BagToSet(checks), links \in SUBSET ArticleUrls : CheckDeduplicate(t, links)
  \/ \E t \in BagToSet(checks) : CheckPosted(t)
  \/ \E t \in BagToSet(checks) : CheckPostFailed(t)

SInit == SchedInit /\ QueueInit /\ PipeIdle /\ GateInit /\ ConfigIdle /\ StoreIdle /\ LinksIdle

\* the scheduler service: cycles, run-now requests and the checks they start
SpecSched == SInit /\ [][SNext]_vars

\* the scheduler loop alone: its cycles and the checks they start
TNext ==
  \/ RunSchedulerCycleTimed
  \/ \E t \in BagToSet(checks) : CheckAcquire(t)
  \/ \E t \in BagToSet(checks) : CheckFetchRaised(t)
  \/ \E t \in BagToSet(checks) : CheckNoUrls(t)
  \/ \E t \in BagToSet(checks) : CheckFindRaised(t)
  \/ \E t \in BagToSet(checks), links \in SUBSET ArticleUrls : CheckDeduplicate(t, links)
  \/ \E t \in BagToSet(checks) : CheckPosted(t)
  \/ \E t \in BagToSet(checks) : CheckPostFailed(t)

SpecCycle == SInit /\ [][TNext]_vars

GNext ==
  \/ \E f \in Workers, url \in Urls : RawExtractionWait(f, url)
  \/ \E f \in Fetchers : WaitForSlotSet(f)
  \/ \E f \in Fetchers : WaitForSlotPttl(f)
  \/ \E f \in Fetchers : WaitForSlotWake(f)
  \/ \E f \in Fetchers : RawExtractionGoto(f)
  \/ \E f \in Fetchers, url \in Urls : CheckSingleLink(f, url)
  \/ \E f \in Fetchers : CheckSingleLinkGoto(f)
  \/ \E f \in Fetchers : CheckEmbeddedLinksDone(f)
  \/ \E url \in Urls : CheckSingleSource(url)
  \/ FetchListingPageGet
  \/ Tick

\* the workers' wait_for_slot calls and article loads while time passes
LNext ==
  \/ \E f \in Workers, url \in Urls : RawExtractionWait(f, url)
  \/ \E f \in Fetchers : WaitForSlotSetTimed(f)
  \/ \E f \in Fetchers : WaitForSlotPttl(f)
  \/ \E f \in Fetchers : WaitForSlotWake(f)
  \/ \E f \in Fetchers : RawExtractionGoto(f)
  \/ \E f \in Fetchers : CheckEmbeddedLinksDone(f)
  \/ Tick

GInit == GateInit /\ QueueInit /\ PipeIdle /\ SchedIdle /\ ConfigIdle /\ StoreIdle /\ LinksIdle

\* workers and the scheduler loading pages while time passes
SpecGate == GInit /\ [][GNext]_vars

\* concurrent callers of wait_for_slot
SpecSlot == GInit /\ [][LNext]_vars

PNext ==
  \/ \E col \in SomePromptCols, db_ok \in BOOLEAN : load_agent_configuration(col, db_ok)
  \/ \E live \in {"read", "unreadable"}, page \in PageResults : fetch_content(live, page)
  \/ fetch_content_raises
  \/ \E ok \in BOOLEAN, res \in LinkLists : extract_links(ok, res)
  \/ \E ok \in BOOLEAN : generate_summary(ok)
  \/ \E ok \in BOOLEAN, res \in Validations : validate_summary(ok, res)
  \/ select_best_summary
  \/ \E browser_ok \in BOOLEAN : \E batch \in LinkBatches(browser_ok) :
       check_embedded_links(browser_ok, batch)
  \/ \E ok \in BOOLEAN : find_other_sources(ok)
  \/ \E ok \in BOOLEAN : categorize_article(ok)
  \/ \E ok \in BOOLEAN : generate_seo(ok)
  \/ \E res \in WebhookResults : notify_webhook(res)
  \/ WorkerResult
  \/ \E url \in Urls, mr \in RetryValues : StartRun(url, mr)
  \/ \E d \in Domains : RobotsCacheExpire(d)

PInit == PipeInit /\ QueueInit /\ GateInit /\ SchedIdle /\ ConfigIdle /\ StoreIdle /\ LinksIdle

\* a worker process running pipeline after pipeline
SpecPipe == PInit /\ [][PNext]_vars

\* app_graph.invoke executing the node it is at
InvokeStep ==
  \/ \E col \in SomePromptCols, db_ok \in BOOLEAN : load_agent_configuration(col, db_ok)
  \/ \E live \in {"read", "unreadable"}, page \in PageResults : fetch_content(live, page)
  \/ fetch_content_raises
  \/ \E ok \in BOOLEAN, res \in LinkLists : extract_links(ok, res)
  \/ \E ok \in BOOLEAN : generate_summary(ok)
  \/ \E ok \in BOOLEAN, res \in Validations : validate_summary(ok, res)
  \/ select_best_summary
  \/ \E browser_ok \in BOOLEAN : \E batch \in LinkBatches(browser_ok) :
       check_embedded_links(browser_ok, batch)
  \/ \E ok \in BOOLEAN : find_other_sources(ok)
  \/ \E ok \in BOOLEAN : categorize_article(ok)
  \/ \E ok \in BOOLEAN : generate_seo(ok)
  \/ \E res \in WebhookResults : notify_webhook(res)

\* the same worker, whose invoke call keeps executing nodes while there is one
\* to execute: every node returns, its external calls have timeouts
SpecPipeFair == PInit /\ [][PNext]_vars /\ WF_vars(InvokeStep)

QInit == QueueInit /\ PipeIdle /\ GateInit /\ SchedIdle /\ ConfigIdle /\ StoreIdle /\ LinksIdle

(***************************************************************************)
(* The queue specification                                                 *)
(***************************************************************************)
\* the steps of the API process and of the worker processes in W
QStep(W) ==
  \/ \E a \in ApiSlots : SubmitLpush(a)
  \/ \E a \in ApiSlots : SubmitHset(a)
  \/ \E a \in ApiSlots, j \in JobIds : RequeueLrange(a, j)
  \/ \E a \in ApiSlots : RequeueLrem(a)
  \/ \E a \in ApiSlots : RequeueLpush(a)
  \/ \E a \in ApiSlots : RequeueHset(a)
  \/ \E a \in ApiSlots : RequeueAllLlen(a)
  \/ \E a \in ApiSlots : RequeueAllMove(a)
  \/ \E a \in ApiSlots : RequeueAllHset(a)
  \/ \E w \in W : WorkerBlpop(w)
  \/ \E w \in W : WorkerProcessing(w)
  \/ \E w \in W : WorkerCompleted(w)
  \/ \E w \in W : WorkerFailedStatus(w)
  \/ \E w \in W : WorkerFailedDlq(w)
  \/ \E w \in W, msg \in CrashMessages : WorkerCrashedStatus(w, msg)
  \/ \E w \in W : WorkerCrashedDlq(w)
  \/ \E w \in W : WorkerLoop(w)

QNext == QStep(Workers)

\* any number of worker processes against the same queue
SpecQueue == QInit /\ [][QNext]_vars

QNextSingle == QStep({"w1"})

\* a deployment with a single worker process
SpecSingle == QInit /\ [][QNextSingle]_vars

\* POST /submit-job against a Redis whose commands can fail, and the workers
UNext ==
  \/ \E a \in ApiSlots : SubmitLpush(a)
  \/ \E a \in ApiSlots : SubmitHset(a)
  \/ \E a \in ApiSlots, exc \in RedisErrors : SubmitLpushRaises(a, exc)
  \/ \E a \in ApiSlots, exc \in RedisErrors : SubmitHsetRaises(a, exc)
  \/ \E a \in ApiSlots, exc \in RedisErrors : SubmitExpireRaises(a, exc)
  \/ \E w \in Workers : WorkerBlpop(w)
  \/ \E w \in Workers : WorkerProcessing(w)
  \/ \E w \in Workers : WorkerCompleted(w)
  \/ \E w \in Workers : WorkerFailedStatus(w)
  \/ \E w \in Workers : WorkerFailedDlq(w)
  \/ \E w \in Workers, msg \in CrashMessages : WorkerCrashedStatus(w, msg)
  \/ \E w \in Workers : WorkerCrashedDlq(w)
  \/ \E w \in Workers : WorkerLoop(w)

\* submissions that can fail part-way
SpecSubmit == QInit /\ [][UNext]_vars

\* the envelope of job j as the worker pushed it to the DLQ after a failed run
DeadLetter(j) == [job_id |-> j, error |-> "error_message", traceback |-> FALSE, tag |-> 0]

\* the jobs that were dead-lettered before the handlers are called
DeadJobs == {1, 2}

\* jobs 1 and 2 were submitted one after the other, the run of each ended with
\* error_message and the worker pushed it to the DLQ; the failures counted from
\* here on are those of later runs
DInit ==
  /\ main_q = <<>>
  /\ dlq = <<DeadLetter(2), DeadLetter(1)>>
  /\ job = [j \in JobIds |-> IF j \in DeadJobs
                              THEN [status |-> "failed", error |-> "error_message"]
                              ELSE AbsentJob]
  /\ api = [a \in ApiSlots |-> IdleApi]
  /\ wk = [w \in Workers |-> IdleWorker]
  /\ nextJob = Cardinality(DeadJobs)
  /\ nextTag = Cardinality(DeadJobs)
  /\ fails = 0
  /\ hist = [j \in JobIds |-> IF j \in DeadJobs THEN <<"queued", "processing", "failed">>
                               ELSE <<>>]
  /\ placements = [j \in JobIds |-> IF j \in DeadJobs THEN 1 ELSE 0]
  /\ started = <<1, 1>>
  /\ requeueOk = [j \in JobIds |-> 0]
  /\ deletedOk = [j \in JobIds |-> 0]
  /\ replied = [j \in JobIds |-> "202"]
  /\ PipeIdle /\ GateInit /\ SchedIdle /\ ConfigIdle /\ StoreIdle /\ LinksIdle

\* the DLQ handlers of the API process and the worker processes
DNext ==
  \/ \E a \in ApiSlots, j \in JobIds : RequeueLrange(a, j)
  \/ \E a \in ApiSlots : RequeueLrem(a)
  \/ \E a \in ApiSlots : RequeueLpush(a)
  \/ \E a \in ApiSlots : RequeueHset(a)
  \/ \E a \in ApiSlots : RequeueAllLlen(a)
  \/ \E a \in ApiSlots : RequeueAllMove(a)
  \/ \E a \in ApiSlots : RequeueAllHset(a)
  \/ \E a \in ApiSlots, j \in JobIds : DeleteLrange(a, j)
  \/ \E a \in ApiSlots : DeleteLrem(a)
  \/ \E a \in ApiSlots : DeleteJob(a)
  \/ \E w \in Workers : WorkerBlpop(w)
  \/ \E w \in Workers : WorkerProcessing(w)
  \/ \E w \in Workers : WorkerCompleted(w)
  \/ \E w \in Workers : WorkerFailedStatus(w)
  \/ \E w \in Workers : WorkerFailedDlq(w)
  \/ \E w \in Workers, msg \in CrashMessages : WorkerCrashedStatus(w, msg)
  \/ \E w \in Workers : WorkerCrashedDlq(w)
  \/ \E w \in Workers : WorkerLoop(w)

\* the queue with dead-lettered jobs to recover or to delete
SpecDlq == DInit /\ [][DNext]_vars

\* job j has left the system: no list, no worker and no handler holds it
Finished(j) ==
  /\ \A i \in 1..Len(main_q) : main_q[i].job_id # j
  /\ \A i \in 1..Len(dlq) : dlq[i].job_id # j
  /\ \A w \in Workers : wk[w].job_data.job_id # j
  /\ \A a \in ApiSlots : api[a].job_id # j

\* POST /submit-job by a producer that never stops: the uuid4 of the new job is
\* written with the number of a job that has left the system, and the history
\* of that number starts afresh
SubmitAgain(a, j) ==
  /\ api[a].pc = "idle"
  /\ Finished(j)
  /\ main_q' = lpush(main_q, [job_id |-> j, error |-> "unset", traceback |-> FALSE, tag |-> j])
  /\ api' = [api EXCEPT ![a] = [IdleApi EXCEPT !.op = "submit", !.pc = "s_hset", !.job_id = j]]
  /\ job' = [job EXCEPT ![j] = AbsentJob]
  /\ hist' = [hist EXCEPT ![j] = <<>>]
  /\ started' = [started EXCEPT ![j] = 0]
  /\ UNCHANGED <<dlq, wk, nextJob, nextTag, placements, requeueOk, deletedOk, replied, fails>>
  /\ UNCHANGED nonQueue

\* one iteration of run_worker whose pipeline run succeeds
WorkerStep(w) ==
  \/ WorkerBlpop(w)
  \/ WorkerProcessing(w)
  \/ WorkerCompleted(w)
  \/ WorkerLoop(w)

\* MaxJobs jobs were submitted and completed before, their status hashes expired
BInit ==
  /\ main_q = <<>>
  /\ dlq = <<>>
  /\ job = [j \in JobIds |-> AbsentJob]
  /\ api = [a \in ApiSlots |-> IdleApi]
  /\ wk = [w \in Workers |-> IdleWorker]
  /\ nextJob = MaxJobs
  /\ nextTag = MaxJobs
  /\ fails = 0
  /\ hist = [j \in JobIds |-> <<>>]
  /\ placements = [j \in JobIds |-> 1]
  /\ started = [j \in JobIds |-> 1]
  /\ requeueOk = [j \in JobIds |-> 0]
  /\ deletedOk = [j \in JobIds |-> 0]
  /\ replied = [j \in JobIds |-> "202"]
  /\ PipeIdle /\ GateInit /\ SchedIdle /\ ConfigIdle /\ StoreIdle /\ LinksIdle

BNext ==
  \/ \E a \in ApiSlots, j \in JobIds : SubmitAgain(a, j)
  \/ \E a \in ApiSlots : SubmitHset(a)
  \/ \E w \in Workers : WorkerBlpop(w)
  \/ \E w \in Workers : WorkerProcessing(w)
  \/ \E w \in Workers : WorkerCompleted(w)
  \/ \E w \in Workers : WorkerLoop(w)

\* producers that keep submitting, workers whose runs all succeed, and one
\* worker process, w1, that keeps running
SpecBusy == BInit /\ [][BNext]_vars /\ WF_vars(WorkerStep("w1"))

\* GovernanceGatekeeper.can_fetch called for url by any process of the fleet
CanFetch(url, live) ==
  /\ robots_cache' = can_fetch_cache(url, robots_cache, live)
  /\ robots_live' = IF robots_cache[_get_domain(url)] # "none" THEN robots_live
                    ELSE [robots_live EXCEPT ![_get_domain(url)] = [url |-> url, live |-> live]]
  /\ canFetchTrue' = IF can_fetch(url, robots_cache, live) THEN canFetchTrue \cup {url}
                     ELSE canFetchTrue
  /\ UNCHANGED <<node, state, loaded, errSnap, selectRuns, worker_end, webhook>>
  /\ UNCHANGED nonPipe

\* the caller of can_fetch loads the page it was allowed to fetch
LoadAllowed(url) ==
  /\ url \in canFetchTrue \ loaded
  /\ loaded' = loaded \cup {url}
  /\ UNCHANGED <<node, state, robots_cache, robots_live, canFetchTrue, errSnap, selectRuns,
                 worker_end, webhook>>
  /\ UNCHANGED nonPipe

RInit == PipeIdle /\ QueueInit /\ GateInit /\ SchedIdle /\ ConfigIdle /\ StoreIdle /\ LinksIdle

RNext ==
  \/ \E url \in Urls, live \in {"read", "unreadable"} : CanFetch(url, live)
  \/ \E url \in Urls : LoadAllowed(url)
  \/ \E d \in Domains : RobotsCacheExpire(d)

\* can_fetch over the robots_cache keys, call after call
SpecRobots == RInit /\ [][RNext]_vars

CInit ==
  /\ prompts_col \in PromptCols
  /\ config = NoConfig
  /\ QueueInit /\ PipeIdle /\ GateInit /\ SchedIdle /\ StoreIdle /\ LinksIdle

CNext == \E db_ok \in BOOLEAN : RunLoadConfig(db_ok)

\* load_agent_configuration applied to every content of the prompts collection
SpecConfig == CInit /\ [][CNext]_vars

(***************************************************************************)
(* Properties of the queue                                                 *)
(***************************************************************************)
Range(f) == {f[i] : i \in DOMAIN f}

InFlight(j) == \E w \in Workers : wk[w].job_data.job_id = j

\* position of a status on the success path
rank(st) == CASE st = "queued" -> 1 [] st = "processing" -> 2 [] st = "completed" -> 3
              [] OTHER -> 0

SuccessPath(h) == \A i, k \in DOMAIN h : i < k => rank(h[i]) < rank(h[k])

\* C1: with a single worker and no requeue so far, the envelope a pop returns
\* is the one that submit-job pushed first among those on main: envelopes leave
\* in the order e1..en in which they were pushed.
C1_FifoPerProducer ==
  [][\A w \in Workers :
       (wk[w].pc = "blpop" /\ wk'[w].pc = "processing" /\ nextTag = nextJob)
         => \A k \in DOMAIN main_q' : main_q'[k].job_id > wk'[w].job_data.job_id]_vars

\* C2: for a job that was submitted once, never dead-lettered and has completed,
\* the values written to job:<id>.status form a subsequence of
\* queued -> processing -> completed.
C2_StatusMonotone ==
  \A j \in JobIds :
    (/\ placements[j] = 1
     /\ "completed" \in Range(hist[j])
     /\ Range(hist[j]) \cap {"failed", "crashed", "re-queued"} = {})
      => SuccessPath(hist[j])

\* C3: every placement of an envelope on main (by submit-job or by a requeue)
\* starts at most one pipeline run, for any number of workers.
C3_AtMostOnceHandOff == \A t \in DOMAIN started : started[t] <= 1

\* C3 witness: both workers are in a pipeline run at the same moment, one of
\* them running an envelope that a requeue put back on main.
C3_Witness ==
  /\ \A w \in Workers : wk[w].pc = "invoke"
  /\ \E w \in Workers : /\ placements[wk[w].job_data.job_id] = 2
                         /\ started[wk[w].job_data.tag] = 1

C10_DlqRoundTrip ==
  \A j \in JobIds :
    (/\ placements[j] = 2
     /\ requeueOk[j] = 1
     /\ "completed" \in Range(hist[j])
     /\ ~InFlight(j)
     /\ \A a \in ApiSlots : api[a].pc = "idle")
      => /\ job[j].status = "completed"
         /\ \A k \in DOMAIN dlq : dlq[k].job_id # j
         /\ \A k \in DOMAIN main_q : main_q[k].job_id # j


\* position of a status on the recovery path
recovery_rank(st) == CASE st = "re-queued" -> 1 [] st = "processing" -> 2
                       [] st = "completed" -> 3 [] OTHER -> 0

RecoveryPath(h) == \A i, k \in DOMAIN h : i < k => recovery_rank(h[i]) < recovery_rank(h[k])

\* C11: for a job that a requeue (requeue-all or requeue by id) moved from the
\* DLQ to main and that was then processed successfully, the values written to
\* job:<id>.status since the move are in the order re-queued, processing,
\* completed, whatever the interleaving of the API with the worker.
C11_RecoveryStatusOrder ==
  \A j \in JobIds :
    (/\ placements[j] >= 2
     /\ "completed" \in Range(hist[j])
     /\ Range(hist[j]) \cap {"failed", "crashed"} = {})
      => RecoveryPath(hist[j])

\* the number of times job id j occurs in the sequence of job ids q
Occurrences(q, j) == Cardinality({i \in 1..Len(q) : q[i] = j})

\* the job ids of the envelopes on list q, in order
JobsOn(q) == [i \in 1..Len(q) |-> q[i].job_id]

\* C23: when POST /queue/dlq/requeue-all returns, every envelope that was in the
\* DLQ when it started has been moved exactly once to main and the reported
\* count is the number of envelopes moved; every move takes the envelope off the
\* DLQ and puts it on main in the same step
C23_RequeueAll ==
  [][\A a \in ApiSlots :
       /\ (api[a].op = "requeue_all" /\ api'[a].pc = "idle") =>
            /\ \A j \in api[a].at_start : Occurrences(api[a].moved, j) = 1
            /\ api[a].count = Len(api[a].moved)
       /\ (api[a].pc = "ra_move" /\ api'[a].pc = "ra_hset") =>
            LET j == api'[a].job_id
            IN  /\ Occurrences(JobsOn(dlq'), j) = Occurrences(JobsOn(dlq), j) - 1
                /\ Occurrences(JobsOn(main_q'), j) = Occurrences(JobsOn(main_q), j) + 1]_vars

\* the workers that hold an envelope of job j between BLPOP and the end of its run
Processing(j) ==
  {w \in Workers : wk[w].job_data.job_id = j /\ wk[w].pc \notin {"blpop", "loop"}}

C29_NoStarvation ==
  \A j \in JobIds :
    (Occurrences(JobsOn(main_q), j) > 0) ~> (Occurrences(JobsOn(main_q), j) = 0)

\* C35: a submission answered with an error (503 or 500) has put no envelope
\* on main and has created no job:<id> record; a submission answered with 202
\* has put its envelope on main, where it lies unless a worker took it, and
\* its record exists
C35_SubmitAllOrNothing ==
  \A j \in JobIds :
    /\ replied[j] \in {"503", "500"} =>
         /\ placements[j] = 0
         /\ hist[j] = <<>>
         /\ job[j] = AbsentJob
    /\ replied[j] = "202" =>
         /\ placements[j] = 1
         /\ job[j] # AbsentJob

(***************************************************************************)
(* Properties of the pipeline                                              *)
(***************************************************************************)
\* C4: in every pipeline run, every URL loaded in a browser page (the source
\* URL by the fetch node, an embedded link by link scoring) has had a can_fetch
\* call that returned true earlier in the run.
C4_RobotsCompliance == loaded \subseteq canFetchTrue

\* C6: once error_message is set in a run, news_article, summary_attempts,
\* validation_count, validation_result and error_message keep the values they
\* had when the error was first set.
C6_FailFast == errSnap.set => Snap(state) = errSnap

\* C7: for every max_retries the request model accepts, validation_count never
\* exceeds max_retries + 1, and select_best_summary has run exactly once when
\* the run reaches END (and never more than once before).
C7_ValidatorLoopBound ==
  /\ state.validation_count <= state.max_retries + 1
  /\ selectRuns <= 1
  /\ node = "END" => selectRuns = 1


\* can_fetch denied the source URL in this run
Denied == /\ node \notin {"load_agent_configuration", "fetch_content", "RAISED"}
          /\ state.source_url \notin canFetchTrue

\* C12: when can_fetch denies the source URL, the error_message the run ends
\* with and the error recorded for the job are "Blocked by robots.txt: <url>",
\* and the worker does not invoke the notifier for the job.
C12_GovernanceDenial ==
  (Denied /\ worker_end # NoEnd)
    => /\ state.error_message = <<"Blocked by robots.txt: ", state.source_url>>
       /\ worker_end.error = <<"Blocked by robots.txt: ", state.source_url>>
       /\ worker_end.mails = 0

(***************************************************************************)
(* Properties of the gate                                                  *)
(***************************************************************************)
LoadPcs == {"goto_article", "goto_link", "get_listing"}

\* C5: every page load by any process (article fetch, link scoring, scheduler
\* listing fetch) happens after wait_for_slot returned for it, and at least the
\* domain's delay_seconds after the previous page load of the same domain.
C5_DomainThrottling ==
  [][\A f \in Fetchers :
       (gate[f].pc \in LoadPcs /\ gate'[f].pc # gate[f].pc)
         => /\ gate[f].slot
            /\ LET domain == _get_domain(gate[f].url)
               IN \/ since_load[domain] = NoLoad
                  \/ since_load[domain] >= _get_dynamic_delay(domain)]_vars


\* C33: a wait_for_slot call returns only from a SET that found no
\* rate_limit:<domain> key, it leaves the key with the domain's delay as its
\* life, and the previous return for the domain is at least that delay back;
\* a caller whose SET finds the key reads its TTL, sleeps and tries again,
\* and leaves the loop in no other way than by acquiring
C33_LockExclusion ==
  [][\A f \in Fetchers :
       LET domain == _get_domain(gate[f].url)
           d      == _get_dynamic_delay(domain)
       IN /\ (gate[f].pc = "set" /\ gate'[f].pc # "set") =>
               IF rate_limit[domain] = 0
               THEN /\ gate'[f].pc = "goto_article"
                    /\ rate_limit'[domain] = d
                    /\ since_slot[domain] = NoLoad \/ since_slot[domain] >= d
                    /\ \A g \in Fetchers \ {f} : gate'[g] = gate[g]
               ELSE /\ gate'[f].pc = "pttl"
                    /\ rate_limit' = rate_limit
          /\ (gate'[f].pc = "goto_article" /\ gate[f].pc # "goto_article") =>
               gate[f].pc = "set"
          /\ gate[f].pc = "pttl" => gate'[f].pc \in {"pttl", "sleep"}
          /\ gate[f].pc = "sleep" => gate'[f].pc \in {"sleep", "set"}]_vars

\* two callers on one domain: one returned and holds the key, the other found
\* the key and sleeps
C33_Witness ==
  /\ gate["w1"].pc = "goto_article"
  /\ gate["w2"].pc = "sleep"
  /\ _get_domain(gate["w1"].url) = _get_domain(gate["w2"].url)
  /\ since_slot[_get_domain(gate["w1"].url)] = 0

\* the semantic score an attempt competes with: null counts as 0
Competes(attempt) ==
  IF attempt.validation.semantic_score = NoScore THEN 0 ELSE attempt.validation.semantic_score

\* select_best_summary has run in this pipeline run and no node has set an error
Selected == selectRuns >= 1 /\ state.error_message = NoError

\* C19 (best-summary selection): after select_best_summary the article's
\* summary is that of the attempt with the greatest semantic score, null
\* counting as 0 and the earliest attempt winning a tie, and validation_result
\* is the validation of that same attempt.
C19_BestSummarySelection ==
  Selected =>
    \E i \in DOMAIN state.summary_attempts :
      /\ \A k \in DOMAIN state.summary_attempts :
           Competes(state.summary_attempts[k]) <= Competes(state.summary_attempts[i])
      /\ \A k \in 1..(i - 1) :
           Competes(state.summary_attempts[k]) < Competes(state.summary_attempts[i])
      /\ state.news_article.summary = state.summary_attempts[i].summary
      /\ state.validation_result = state.summary_attempts[i].validation

\* the first of two attempts scored higher than the second and was selected
C19_Witness ==
  /\ Selected
  /\ Len(state.summary_attempts) = 2
  /\ state.summary_attempts[1].validation.semantic_score = 7
  /\ state.summary_attempts[2].validation.semantic_score = 3
  /\ state.news_article.summary = 1

\* the error an enrichment stage leaves when its query generation raises
EnrichmentError == <<"Error in find_other_sources: ", "e">>

\* C20 (partial enrichment): a failure of embedded-link scoring or of the
\* corroborating-source search never becomes the error of the run: no
\* enrichment stage sets error_message, and the worker never records an
\* enrichment failure as the error of the job.
C20_PartialEnrichment ==
  /\ state.error_message # EnrichmentError
  /\ worker_end.error # EnrichmentError

\* C21 (webhook gating): a request goes to the webhook only from
\* notify_webhook, the last node, and only when error_message is null there;
\* notify_webhook hands the state on unchanged whatever the receiver answers;
\* a run whose job ends failed has sent nothing to the webhook, and a run that
\* sent something ends completed.
C21_WebhookGating ==
  [][/\ webhook' # webhook /\ webhook'.posts > 0 =>
          /\ node = "notify_webhook" /\ node' = "END"
          /\ state.error_message = NoError
          /\ webhook'.posts = 1
     /\ node = "notify_webhook" => state' = state
     /\ worker_end'.status = "failed" => webhook'.posts = 0
     /\ (webhook'.posts > 0 /\ worker_end' # NoEnd) =>
          worker_end'.status = "completed"]_vars

\* the webhook request of a run timed out and the job was recorded completed
C21_Witness ==
  /\ webhook = [posts |-> 1, response |-> "timeout"]
  /\ worker_end.status = "completed"

\* C26: every pipeline run terminates, reaching END after notify_webhook, for
\* every behaviour of the external LLM, including calls that fail on some or all
\* attempts; the generate_summary / validate_summary loop cannot cycle without
\* increasing validation_count
C26_PipelineTermination ==
  /\ (node = "generate_summary") ~> (node = "END")
  /\ [][(node = "validate_summary" /\ node' = "generate_summary") =>
          state'.validation_count > state.validation_count]_vars

\* C28: can_fetch(url) returns true only if the robots.txt of the url's domain
\* permits that url for the configured User-Agent, or robots.txt could not be
\* fetched, whatever other URLs of the domain were checked before within the
\* cache window
C28_PerUrlRobotsDecision ==
  [][\A url \in canFetchTrue' \ canFetchTrue :
       rp_can_fetch(url) \/ robots_live'[_get_domain(url)].live = "unreadable"]_vars

\* C30: in a run where no stage fails and max_retries >= 1, after every
\* validation the number of generate_summary executions (the number of the
\* latest summary) equals the number of validate_summary executions (the
\* attempts recorded); no attempt before the latest was judged valid; the loop
\* is left exactly when the latest attempt is valid or is attempt number
\* max_retries, so the number of attempts is min(k, max_retries); and leaving it
\* without a valid attempt sets no error_message
C30_ExactLoopLength ==
  [][(/\ node = "validate_summary"
      /\ state.error_message = NoError
      /\ state.max_retries >= 1
      /\ state'.validation_count > state.validation_count) =>
       LET attempts == state'.summary_attempts
           n        == Len(attempts)
       IN  /\ state'.validation_count = n
           /\ state'.news_article.summary = n
           /\ n <= state.max_retries
           /\ \A i \in 1..(n - 1) : ~attempts[i].validation.is_valid
           /\ node' = IF attempts[n].validation.is_valid \/ n = state.max_retries
                      THEN "select_best_summary" ELSE "generate_summary"
           /\ state'.error_message = NoError]_vars

\* a run without failures that used all its attempts and found none valid
C30_Witness ==
  /\ node = "select_best_summary"
  /\ state.error_message = NoError
  /\ state.max_retries = MaxRetries
  /\ Len(state.summary_attempts) = MaxRetries
  /\ \A i \in 1..MaxRetries : ~state.summary_attempts[i].validation.is_valid

\* C31: in every state of every run validation_count is the length of
\* summary_attempts, also after a generate or validate step that failed; a
\* validate_summary step either fails and leaves the attempts as they were, or
\* appends exactly one attempt that pairs the current summary with the
\* validation it stores as validation_result
C31_AttemptCounter ==
  /\ [](state.validation_count = Len(state.summary_attempts))
  /\ [][(node = "validate_summary" /\ node' # node) =>
         \/ /\ state'.summary_attempts = state.summary_attempts
            /\ state'.error_message # NoError
         \/ /\ state'.summary_attempts =
                 Append(state.summary_attempts,
                        [summary |-> state.news_article.summary,
                         validation |-> state'.validation_result])
            /\ state'.news_article.summary = state.news_article.summary]_vars

\* an attempt was recorded and a later generate step failed: the state that
\* reaches validate_summary carries an error and one attempt
C31_Witness ==
  /\ node = "validate_summary"
  /\ state.error_message # NoError
  /\ state.validation_count = 1
  /\ Len(state.summary_attempts) = 1

\* C32: no node lets an exception reach the executor: app_graph.invoke never
\* raises, and no job is reported crashed; a local failure inside a node,
\* the governance gate's Redis or MongoDB access in the fetch node included,
\* sets error_message and the job ends with status failed
C32_NodesDoNotRaise ==
  /\ node # "RAISED"
  /\ worker_end.status # "crashed"

\* C34: once error_message is set in a run, no node executed later performs
\* an external action; of the external actions the model follows the browser
\* page loads and the webhook POST, so a node that runs on a state with an
\* error loads no page and sends no request
C34_NoSideEffectsAfterError ==
  [][(state.error_message # NoError /\ node \notin {"END", "RAISED"}) =>
       /\ loaded' = loaded
       /\ webhook'.posts = webhook.posts]_vars

\* C37: when select_best_summary chooses among attempts of which at least one
\* was judged valid, the attempt it chooses was judged valid: the article gets
\* the summary of a valid attempt and the final validation_result has
\* is_valid = true
C37_ValidAttemptWins ==
  [][(/\ node = "select_best_summary"
      /\ node' # node
      /\ state.error_message = NoError
      /\ \E i \in DOMAIN state.summary_attempts :
           state.summary_attempts[i].validation.is_valid) =>
       /\ state'.validation_result.is_valid
       /\ \E i \in DOMAIN state.summary_attempts :
            /\ state.summary_attempts[i].validation.is_valid
            /\ state'.news_article.summary = state.summary_attempts[i].summary
            /\ state'.validation_result = state.summary_attempts[i].validation]_vars

\* C39: check_embedded_links, run on a state without error whose article has
\* embedded links, returns one link per input link in the input order, each
\* with a relevance_score that is not null, and sets no error_message
C39_LinkScoringOutput ==
  [][(/\ node = "check_embedded_links"
      /\ node' # node
      /\ state.error_message = NoError
      /\ state.news_article.present
      /\ state.news_article.embedded_links # <<>>) =>
       LET links == state.news_article.embedded_links
           out   == state'.news_article.embedded_links
       IN  /\ Len(out) = Len(links)
           /\ \A i \in DOMAIN links :
                /\ out[i].url = links[i].url
                /\ out[i].relevance_score # NoScore
           /\ state'.error_message = NoError]_vars

(***************************************************************************)
(* Properties of the scheduler                                             *)
(***************************************************************************)
\* the URLs that have a row in the article store
Present(col) == {u \in ArticleUrls : col[u] # <<>>}

\* the checks that are in flight before a step and gone after it
Leaving == {t \in BagToSet(checks) : CopiesIn(t, checks') < CopiesIn(t, checks)}

C14_SchedulerRobotsDenial ==
  \A t \in BagToSet(checks) :
    ~rp_can_fetch(listing_url(t.source)) => t.pc \notin InsidePcs

\* the number of checks of a source that are in flight
ChecksOf(chk, s) ==
  BagCardinality([t \in {x \in BagToSet(chk) : x.source = s} |-> chk[t]])

\* C15 (tick overlap): a cycle that fires while a check of a source is still
\* running or waiting for a slot starts no further check of that source, so
\* the cycles never put two checks of one source in flight.
C15_TickOverlap ==
  [][\A s \in Sources :
       (now' # now /\ ChecksOf(checks, s) > 0) =>
         ChecksOf(checks', s) = ChecksOf(checks, s)]_vars

\* a source is due at a time: never checked, or its interval has elapsed
Due(doc, t) == doc.last_run_at = NoRun \/ t - doc.last_run_at >= doc.fetch_interval_minutes

\* C16 (due rule): a cycle starts one check for each source that is active and
\* due at the time of the cycle, and no check for any other source.
C16_DueRule ==
  [][now' # now =>
       \A s \in Sources :
         ChecksOf(checks', s) - ChecksOf(checks, s) =
           IF sources_col[s].is_active /\ Due(sources_col[s], now') THEN 1 ELSE 0]_vars

\* the cycle of minute 2 has passed over a source checked a minute ago with an
\* interval of two minutes, and over a due source that is switched off
C16_Witness ==
  /\ now = 2
  /\ sources_col["s1"].last_run_at = 1
  /\ sources_col["s1"].fetch_interval_minutes = 2
  /\ sources_col["s2"].last_run_at = NoRun
  /\ checks = EmptyBag

\* C17 (scheduler concurrency cap): at most three checks, however started, are
\* between taking the semaphore and leaving check_single_source, and every
\* check that left gave its slot back: the free slots and the checks inside
\* always add up to three.
C17_ConcurrencyCap ==
  /\ Inside(checks) <= 3
  /\ sem + Inside(checks) = 3

\* three checks are inside, one of them past an exception of another check,
\* and a fourth waits for a slot
C17_Witness ==
  /\ Inside(checks) = 3
  /\ BagCardinality(checks) = 4
  /\ mails["s1"] + mails["s2"] > 0

C38_CheckInterval ==
  [][\A s \in Sources :
       (now' # now /\ dispatched'[s] # dispatched[s]) =>
         \/ dispatched[s] = NoRun
         \/ dispatched'[s] - dispatched[s] >= sources_col[s].fetch_interval_minutes]_vars

(***************************************************************************)
(* Properties of the configuration load                                    *)
(***************************************************************************)
\* C22: load_config sets error_message whenever at least one of the 18 required
\* prompt names has no active prompt document, and otherwise populates
\* active_prompts with all 18 prompts together with category_mapping
C22_RequiredPrompts ==
  config.ran =>
    /\ ~(REQUIRED_PROMPTS \subseteq prompts_col) => config.error_message # NoError
    /\ config.error_message = NoError =>
         /\ config.active_prompts = REQUIRED_PROMPTS
         /\ config.category_mapping

(***************************************************************************)
(* Properties of the article store                                         *)
(***************************************************************************)
\* the collections that hold a document with this _id
Holders(article_id) ==
  {c \in {"processed", "archived", "deleted"} :
     find_one(CASE c = "processed" -> processed_articles
                [] c = "archived"  -> archived_articles
                [] OTHER           -> deleted_articles, article_id) # {}}

\* C25: whatever archive and soft-delete requests were made, once they have
\* completed every article record is held by exactly one of processed_articles,
\* archived_articles and deleted_articles, and a record that was moved is kept
\* with the content the active record had
C25_ArticleMove ==
  /\ \A i \in 1..next_id : Cardinality(Holders(i)) = 1
  /\ \A article \in moved : article \in archived_articles \cup deleted_articles

\* C36: whatever source checks, store-result callbacks and archive or
\* soft-delete requests were made, the scheduler has posted every URL to the
\* Job API at most once
C36_UrlMemory == \A u \in ArticleUrls : job_posts[u] <= 1

\* C40: at every moment at most 8 link-scoring contexts are open in the
\* process and every open context has its semaphore permit; when
\* check_embedded_links has returned, all contexts are closed and all 8
\* permits are available again, whichever links failed
C40_BrowserSlots ==
  /\ contexts <= BROWSER_SEMAPHORE
  /\ contexts + browser_sem <= BROWSER_SEMAPHORE
  /\ links_batch = "returned" => contexts = 0 /\ browser_sem = BROWSER_SEMAPHORE

====
